---------------------------- MODULE Spec2Model ----------------------------
(***************************************************************************)
(* KalKalori bare-tube heat-exchanger rating engine (src/core).            *)
(*                                                                         *)
(* The engine is a library of immutable value objects and pure functions   *)
(* over Python floats.  A state of the model is one invocation: the        *)
(* operation and its arguments (drawn in Init), the objects it is invoked  *)
(* on, and, once the operation has run, what it returned or raised.        *)
(*                                                                         *)
(* Floats are modelled as decimal floating-point numbers with a four-digit *)
(* mantissa and an unbounded exponent, plus inf, -inf and nan: every       *)
(* arithmetic operation rounds its exact result to four significant        *)
(* digits, as IEEE arithmetic rounds to 53 bits.  Values with at most four *)
(* significant digits (all literals of the source) are represented         *)
(* exactly.                                                                *)
(***************************************************************************)
EXTENDS Integers, Sequences, FiniteSets, TLC

(***************************************************************************)
(* Python float: [k, m, e] stands for m * 10^e when k = "fin"; normalised  *)
(* so that m = 0 (and e = 0) or 1000 <= |m| <= 9999.                       *)
(***************************************************************************)
Sgn(i) == IF i > 0 THEN 1 ELSE IF i < 0 THEN -1 ELSE 0

AbsInt(i) == IF i < 0 THEN -i ELSE i

Pow10(d) == <<1, 10, 100, 1000, 10000, 100000>>[d + 1]

Zero == [k |-> "fin", m |-> 0, e |-> 0]

NaN == [k |-> "nan", m |-> 0, e |-> 0]

Inf == [k |-> "inf", m |-> 1, e |-> 0]

NegInf == [k |-> "inf", m |-> -1, e |-> 0]

\* Python's None, where an argument or attribute is Optional.
None == [k |-> "none", m |-> 0, e |-> 0]

RECURSIVE NormMag(_, _)
\* Round the positive magnitude a * 10^e to four significant digits.
NormMag(a, e) ==
    IF a < 1000 THEN NormMag(a * 10, e - 1)
    ELSE IF a >= 100000 THEN NormMag(a \div 10, e + 1)
    ELSE IF a >= 10000
         THEN LET r == (a + 5) \div 10
              IN  IF r >= 10000 THEN <<1000, e + 2>> ELSE <<r, e + 1>>
    ELSE <<a, e>>

\* The float of sign s and rounded magnitude p = <<mantissa, exponent>>.
FinOf(s, p) == [k |-> "fin", m |-> s * p[1], e |-> p[2]]

\* The float nearest to m * 10^e.
Fin(m, e) == IF m = 0 THEN Zero ELSE FinOf(Sgn(m), NormMag(AbsInt(m), e))

\* float(n) for a Python int n, and a decimal literal n * 10^-sc.
I(n) == Fin(n, 0)

Dec(n, sc) == Fin(n, -sc)

One == I(1)

IsNaN(x) == x.k = "nan"

IsFinite(x) == x.k = "fin"

FNeg(x) == IF x.k = "nan" THEN NaN ELSE [x EXCEPT !.m = -x.m]

FAbs(x) == IF x.k = "nan" THEN NaN ELSE [x EXCEPT !.m = AbsInt(x.m)]

\* hi + lo for hi.e >= lo.e: lo is below hi's last digit beyond 5 decades.
FAddOrdered(hi, lo) ==
    IF hi.e - lo.e > 5 THEN hi ELSE Fin(hi.m * Pow10(hi.e - lo.e) + lo.m, lo.e)

FAddFin(x, y) ==
    IF x.m = 0 THEN y
    ELSE IF y.m = 0 THEN x
    ELSE IF x.e >= y.e THEN FAddOrdered(x, y)
    ELSE FAddOrdered(y, x)

FAdd(x, y) ==
    IF x.k = "nan" \/ y.k = "nan" THEN NaN
    ELSE IF x.k = "inf" THEN (IF y.k = "inf" /\ y.m # x.m THEN NaN ELSE x)
    ELSE IF y.k = "inf" THEN y
    ELSE FAddFin(x, y)

FSub(x, y) == FAdd(x, FNeg(y))

FMul(x, y) ==
    IF x.k = "nan" \/ y.k = "nan" THEN NaN
    ELSE IF x.k = "inf" \/ y.k = "inf"
         THEN IF x.m = 0 \/ y.m = 0 THEN NaN
              ELSE [k |-> "inf", m |-> Sgn(x.m) * Sgn(y.m), e |-> 0]
    ELSE Fin(x.m * y.m, x.e + y.e)

\* x / y for y # 0.  Python raises ZeroDivisionError on a zero divisor: every
\* division of the source whose divisor can be zero is guarded by its caller
\* below, which raises in that case.
FDiv(x, y) ==
    IF x.k = "nan" \/ y.k = "nan" THEN NaN
    ELSE IF x.k = "inf"
         THEN IF y.k = "inf" \/ y.m = 0 THEN NaN
              ELSE [k |-> "inf", m |-> Sgn(x.m) * Sgn(y.m), e |-> 0]
    ELSE IF y.k = "inf" THEN Zero
    ELSE IF y.m = 0 THEN NaN
    ELSE Fin(Sgn(x.m) * Sgn(y.m) * ((AbsInt(x.m) * 100000) \div AbsInt(y.m)),
             x.e - y.e - 5)

\* Comparisons: every comparison with nan is False.
FLt(x, y) ==
    /\ x.k # "nan"
    /\ y.k # "nan"
    /\ x # y
    /\ FSub(x, y).m < 0

FLe(x, y) == x.k # "nan" /\ y.k # "nan" /\ (x = y \/ FLt(x, y))

FGt(x, y) == FLt(y, x)

FGe(x, y) == FLe(y, x)

\* Python's min(a, b) and max(a, b).
FMin(a, b) == IF FLt(b, a) THEN b ELSE a

FMax(a, b) == IF FGt(b, a) THEN b ELSE a

(***************************************************************************)
(* The math library (math.sqrt, math.log, math.exp, x ** y), computed in   *)
(* integer fixed point and rounded to a float.  math.exp(x) is 1 at 0, at  *)
(* least 1 for x >= 0 and at most 1 for x <= 0, and underflows to 0.0      *)
(* below -745 as the C library's does.                                     *)
(***************************************************************************)
RECURSIVE ISqrtIter(_, _, _)
\* The largest r in lo..hi with r * r <= n (hi <= 46340).
ISqrtIter(n, lo, hi) ==
    IF lo >= hi THEN lo
    ELSE LET mid == (lo + hi + 1) \div 2
         IN  IF mid * mid <= n THEN ISqrtIter(n, mid, hi)
             ELSE ISqrtIter(n, lo, mid - 1)

\* math.sqrt(x) for finite x > 0.
MathSqrt(x) ==
    IF x.e % 2 = 1
    THEN Fin(ISqrtIter(x.m * 100000, 0, 40000), (x.e - 5) \div 2)
    ELSE Fin(ISqrtIter(x.m * 10000, 0, 40000), (x.e - 4) \div 2)

\* ln(a / b) * 10^5 for 1 <= a / b < 2, by 2 * atanh((a - b) / (a + b)).
MulFix5(a, b) == (a * b) \div 100000

\* 2 * (z + z^3 / 3 + z^5 / 5 + z^7 / 7), with z2 = z^2.
AtanhSeries(z, z2) ==
    2 * (z + MulFix5(z, z2) \div 3 + MulFix5(MulFix5(z, z2), z2) \div 5
           + MulFix5(MulFix5(MulFix5(z, z2), z2), z2) \div 7)

AtanhOf(z) == AtanhSeries(z, MulFix5(z, z))

LnMantissa(a, b) == AtanhOf(((a - b) * 100000) \div (a + b))

\* math.log(x) for finite x > 0: x = (m / 1000) * 10^(e + 3), and
\* m / 1000 = 2^j * (a / b) with 1 <= a / b < 2.
LogWith(x, j) ==
    Fin(LnMantissa(x.m, 1000 * <<1, 2, 4, 8>>[j + 1]) + j * 69315 + (x.e + 3) * 230259, -5)

MathLog(x) ==
    LogWith(x, IF x.m >= 8000 THEN 3 ELSE IF x.m >= 4000 THEN 2
               ELSE IF x.m >= 2000 THEN 1 ELSE 0)

\* x * 10^4 as an integer, for |x| <= 745.
ToFixed4(x) ==
    IF x.m = 0 THEN 0
    ELSE IF x.e + 4 >= 0 THEN x.m * Pow10(x.e + 4)
    ELSE IF x.e + 4 < -4 THEN 0
    ELSE Sgn(x.m) * ((AbsInt(x.m) + Pow10(-(x.e + 4)) \div 2) \div Pow10(-(x.e + 4)))

\* exp(r / 10^4) * 10^4 for 0 <= r < 5800, by its Taylor series.
RECURSIVE ExpTerms(_, _, _)
\* The terms of the series from the n-th, t, to the sixth.
ExpTerms(t, r, n) ==
    IF n > 6 THEN 0 ELSE t + ExpTerms((t * r) \div ((n + 1) * 10000), r, n + 1)

ExpSeries(r) == 10000 + ExpTerms(r, r, 1)

\* exp(X / 10^4) for an integer X >= 0: 10^k * exp(r)^4 with
\* X = k * ln(10) + 4 * r.
FSquare(q) == FMul(q, q)

Scale10(q, k) == [q EXCEPT !.e = q.e + k]

ExpPos(X) ==
    Scale10(FSquare(FSquare(Fin(ExpSeries((X % 23026) \div 4), -4))), X \div 23026)

ExpFixed(X) == IF X >= 0 THEN ExpPos(X) ELSE FDiv(One, ExpPos(-X))

\* math.exp(x) for x <= 709 (beyond it math.exp raises OverflowError).
MathExp(x) ==
    IF x.k = "nan" THEN NaN
    ELSE IF x.k = "inf" THEN (IF x.m > 0 THEN Inf ELSE Zero)
    ELSE IF FLt(x, I(-745)) THEN Zero
    ELSE ExpFixed(ToFixed4(x))

\* x ** y for finite x > 0 and finite y.
FPow(x, y) == MathExp(FMul(y, MathLog(x)))

\* math.pi
MathPi == Dec(3142, 3)

(***************************************************************************)
(* What a call does: it returns a value or raises an exception.            *)
(***************************************************************************)
Ok(v) == [ok |-> TRUE, exc |-> "", msg |-> "", v |-> v]

Raise(exc, msg) == [ok |-> FALSE, exc |-> exc, msg |-> msg, v |-> <<>>]

\* str.lower() on the arrangement and layout names the model passes.
Lower(s) ==
    CASE s = "CounterFlow" -> "counterflow"
      [] s = "CROSSFLOW" -> "crossflow"
      [] s = "Staggered" -> "staggered"
      [] OTHER -> s

(***************************************************************************)
(* core/geometry/tube.py                                                   *)
(***************************************************************************)
BareTube(D_i, D_o, length_total, length_effective) ==
    IF FLe(D_i, Zero) \/ FLe(D_o, Zero)
    THEN Raise("ValueError", "Diameters must be positive.")
    ELSE IF FLe(D_o, D_i)
    THEN Raise("ValueError", "Outer diameter must be greater than inner diameter.")
    ELSE IF FLe(length_total, Zero)
    THEN Raise("ValueError", "length_total must be positive.")
    ELSE IF FLe(length_effective, Zero)
    THEN Raise("ValueError", "length_effective must be positive.")
    ELSE IF FGt(length_effective, length_total)
    THEN Raise("ValueError", "length_effective must not exceed length_total.")
    ELSE Ok([D_i |-> D_i, D_o |-> D_o, length_total |-> length_total,
             length_effective |-> length_effective])

flow_area(tube) == FDiv(FMul(MathPi, FMul(tube.D_i, tube.D_i)), I(4))

hydraulic_diameter(tube) == tube.D_i

area_inner(tube) == FMul(FMul(MathPi, tube.D_i), tube.length_effective)

area_outer(tube) == FMul(FMul(MathPi, tube.D_o), tube.length_effective)

(***************************************************************************)
(* core/geometry/bundle.py                                                 *)
(***************************************************************************)
n_tubes_total(b) == b.n_rows * b.n_tubes_per_row

\* Python's // on ints (only evaluated with n_passes_tube > 0).
n_tubes_per_pass(b) == n_tubes_total(b) \div b.n_passes_tube

n_turns(b) == IF b.n_passes_tube - 1 > 0 THEN b.n_passes_tube - 1 ELSE 0

\* TubeBundle(...): the dataclass stores its fields, then __post_init__
\* validates them; the instance exists only if no check raises.
\* A construction that partitions any tube count: the divisibility test left out.
TubeBundle_any_partition(b) ==
    IF b.n_rows <= 0 \/ b.n_tubes_per_row <= 0 \/ b.n_passes_tube <= 0
       \/ FLe(b.pitch_transverse, Zero) \/ FLe(b.pitch_longitudinal, Zero)
       \/ Lower(b.layout) \notin {"inline", "staggered"}
       \/ Lower(b.flow_arrangement) \notin {"crossflow", "counterflow", "cocurrentflow"}
    THEN Raise("ValueError", "invalid bundle")
    ELSE Ok(b)

TubeBundle(b) ==
    IF b.n_rows <= 0 \/ b.n_tubes_per_row <= 0
    THEN Raise("ValueError", "n_rows and n_tubes_per_row must be positive integers.")
    ELSE IF FLe(b.pitch_transverse, Zero) \/ FLe(b.pitch_longitudinal, Zero)
    THEN Raise("ValueError", "pitch_transverse and pitch_longitudinal must be positive.")
    ELSE IF b.n_passes_tube <= 0
    THEN Raise("ValueError", "n_passes_tube must be a positive integer.")
    ELSE IF Lower(b.layout) \notin {"inline", "staggered"}
    THEN Raise("ValueError", "layout must be 'inline' or 'staggered'.")
    ELSE IF Lower(b.flow_arrangement) \notin {"crossflow", "counterflow", "cocurrentflow"}
    THEN Raise("ValueError", "flow_arrangement must be 'crossflow', 'counterflow', or 'cocurrentflow'.")
    ELSE IF n_tubes_total(b) % b.n_passes_tube # 0
    THEN Raise("ValueError", "For MVP, total tube count must be divisible by n_passes_tube (equal tube partitioning per pass).")
    ELSE Ok(b)

total_inner_area(b) == FMul(I(n_tubes_total(b)), area_inner(b.tube))

total_outer_area(b) == FMul(I(n_tubes_total(b)), area_outer(b.tube))

internal_flow_area_per_pass(b) == FMul(I(n_tubes_per_pass(b)), flow_area(b.tube))

internal_hydraulic_diameter(b) == hydraulic_diameter(b.tube)

\* A hydraulic length of one pass only.
internal_length_one_pass(b) == b.tube.length_total

internal_length_total(b) == FMul(I(b.n_passes_tube), b.tube.length_total)

frontal_flow_area(b) ==
    LET height == FMul(I(b.n_tubes_per_row), b.pitch_transverse)
        width  == b.tube.length_effective
    IN  FMul(height, width)

(***************************************************************************)
(* core/heat_transfer/streams.py                                           *)
(***************************************************************************)
SensibleHeatStream(C, T_in) ==
    IF FLe(C, Zero)
    THEN Raise("ValueError", "Heat capacity rate must be positive.")
    ELSE Ok([cls |-> "SensibleHeatStream", C |-> C, T_in |-> T_in])

CondensingSteamStream(T_sat) ==
    Ok([cls |-> "CondensingSteamStream", T_sat |-> T_sat])

MoistAirStream(m_dot, h_in, T_in, C_eff) ==
    IF FLe(m_dot, Zero)
    THEN Raise("ValueError", "Dry air mass flow rate must be positive.")
    ELSE Ok([cls |-> "MoistAirStream", m_dot |-> m_dot, h_in |-> h_in,
             T_in |-> T_in, C_eff |-> C_eff])

\* A condensing stream of large finite capacity rate.
capacity_rate_finite_steam(s) ==
    CASE s.cls = "SensibleHeatStream" -> Ok(s.C)
      [] s.cls = "CondensingSteamStream" -> Ok(Fin(1, 9))
      [] s.cls = "MoistAirStream" ->
            IF s.C_eff = None
            THEN Raise("RuntimeError", "Effective heat capacity rate not set for MoistAirStream.")
            ELSE Ok(s.C_eff)

\* A moist-air stream whose missing capacity rate defaults to m_dot * 1005.
capacity_rate_defaulted(s) ==
    CASE s.cls = "SensibleHeatStream" -> Ok(s.C)
      [] s.cls = "CondensingSteamStream" -> Ok(Inf)
      [] s.cls = "MoistAirStream" ->
            IF s.C_eff = None THEN Ok(FMul(s.m_dot, I(1005))) ELSE Ok(s.C_eff)

capacity_rate(s) ==
    CASE s.cls = "SensibleHeatStream" -> Ok(s.C)
      [] s.cls = "CondensingSteamStream" -> Ok(Inf)
      [] s.cls = "MoistAirStream" ->
            IF s.C_eff = None
            THEN Raise("RuntimeError", "Effective heat capacity rate not set for MoistAirStream.")
            ELSE Ok(s.C_eff)

inlet_temperature(s) ==
    CASE s.cls = "SensibleHeatStream" -> s.T_in
      [] s.cls = "CondensingSteamStream" -> s.T_sat
      [] s.cls = "MoistAirStream" -> s.T_in

\* outlet_temperature(Q), Q positive when heat is removed from the stream.
\* MoistAirStream computes h_out and returns the inlet temperature.
outlet_temperature(s, Q) ==
    CASE s.cls = "SensibleHeatStream" -> FSub(s.T_in, FDiv(Q, s.C))
      [] s.cls = "CondensingSteamStream" -> s.T_sat
      [] s.cls = "MoistAirStream" -> s.T_in

outlet_enthalpy(s, Q) == FSub(s.h_in, FDiv(Q, s.m_dot))

(***************************************************************************)
(* core/heat_transfer/ntu.py                                               *)
(***************************************************************************)
\* The cocurrent closed form, written out in the source for "cocurrentflow".
eps_cocurrentflow(NTU, C_r) ==
    FDiv(FSub(One, MathExp(FMul(FNeg(NTU), FAdd(One, C_r)))), FAdd(One, C_r))

\* An independent crossflow relation (one fluid mixed, C_r -> 0 limit).
eps_crossflow_unmixed(NTU, C_r) == FSub(One, MathExp(FNeg(NTU)))

\* The expression the source writes out for "crossflow".
eps_crossflow(NTU, C_r) ==
    FDiv(FSub(One, MathExp(FMul(FNeg(NTU), FAdd(One, C_r)))), FAdd(One, C_r))

\* A counterflow relation that takes the limiting form within 1e-3 of C_r = 1.
eps_counterflow_wide(NTU, C_r) ==
    IF FLt(FAbs(FSub(One, C_r)), Dec(1, 3))
    THEN FDiv(NTU, FAdd(One, NTU))
    ELSE FDiv(FSub(One, MathExp(FMul(FNeg(NTU), FSub(One, C_r)))),
              FSub(One, FMul(C_r, MathExp(FMul(FNeg(NTU), FSub(One, C_r))))))

eps_counterflow(NTU, C_r) ==
    IF FLt(FAbs(FSub(One, C_r)), Dec(1, 9))
    THEN FDiv(NTU, FAdd(One, NTU))
    ELSE LET ex == MathExp(FMul(FNeg(NTU), FSub(One, C_r)))
         IN  FDiv(FSub(One, ex), FSub(One, FMul(C_r, ex)))

\* An effectiveness that matches the name as written and takes any other name
\* for crossflow.
effectiveness_ntu_lenient(C_hot, C_cold, UA, flow_arrangement) ==
    IF FLe(C_hot, Zero) \/ FLe(C_cold, Zero)
    THEN Raise("ValueError", "C_hot and C_cold must be positive.")
    ELSE IF FLe(UA, Zero)
    THEN Raise("ValueError", "UA must be positive.")
    ELSE IF flow_arrangement = "counterflow"
    THEN Ok(eps_counterflow(FDiv(UA, FMin(C_hot, C_cold)),
                            FDiv(FMin(C_hot, C_cold), FMax(C_hot, C_cold))))
    ELSE Ok(eps_cocurrentflow(FDiv(UA, FMin(C_hot, C_cold)),
                              FDiv(FMin(C_hot, C_cold), FMax(C_hot, C_cold))))

\* An effectiveness whose NTU is taken on the hot stream's rate.
effectiveness_ntu_hot_as_min(C_hot, C_cold, UA, flow_arrangement) ==
    IF FLe(C_hot, Zero) \/ FLe(C_cold, Zero)
    THEN Raise("ValueError", "C_hot and C_cold must be positive.")
    ELSE IF FLe(UA, Zero)
    THEN Raise("ValueError", "UA must be positive.")
    ELSE IF Lower(flow_arrangement) = "counterflow"
    THEN Ok(eps_counterflow(FDiv(UA, C_hot), FDiv(FMin(C_hot, C_cold), FMax(C_hot, C_cold))))
    ELSE IF Lower(flow_arrangement) \in {"cocurrentflow", "crossflow"}
    THEN Ok(eps_cocurrentflow(FDiv(UA, C_hot), FDiv(FMin(C_hot, C_cold), FMax(C_hot, C_cold))))
    ELSE Raise("ValueError", "Unsupported flow_arrangement")

effectiveness_ntu(C_hot, C_cold, UA, flow_arrangement) ==
    IF FLe(C_hot, Zero) \/ FLe(C_cold, Zero)
    THEN Raise("ValueError", "C_hot and C_cold must be positive.")
    ELSE IF FLe(UA, Zero)
    THEN Raise("ValueError", "UA must be positive.")
    ELSE LET C_min == FMin(C_hot, C_cold)
             C_max == FMax(C_hot, C_cold)
             C_r   == FDiv(C_min, C_max)
             NTU   == FDiv(UA, C_min)
             fa    == Lower(flow_arrangement)
         IN  IF fa = "counterflow" THEN Ok(eps_counterflow(NTU, C_r))
             ELSE IF fa = "cocurrentflow" THEN Ok(eps_cocurrentflow(NTU, C_r))
             ELSE IF fa = "crossflow" THEN Ok(eps_crossflow(NTU, C_r))
             ELSE Raise("ValueError", "Unsupported flow_arrangement")

\* The outlet temperatures for a duty Q.
heat_duty_of_Q(Q, hot_stream, cold_stream) ==
    Ok([Q |-> Q,
        T_hot_out  |-> FSub(inlet_temperature(hot_stream), FDiv(Q, capacity_rate(hot_stream).v)),
        T_cold_out |-> FAdd(inlet_temperature(cold_stream), FDiv(Q, capacity_rate(cold_stream).v))])

\* A duty whose outlet temperatures both use the smaller capacity rate.
heat_duty_from_C_min(eps, hot_stream, cold_stream) ==
    IF ~(FLe(Zero, eps) /\ FLe(eps, One))
    THEN Raise("ValueError", "eps must be between 0 and 1.")
    ELSE IF ~capacity_rate(hot_stream).ok THEN capacity_rate(hot_stream)
    ELSE IF ~capacity_rate(cold_stream).ok THEN capacity_rate(cold_stream)
    ELSE IF capacity_rate(hot_stream).v = Zero \/ capacity_rate(cold_stream).v = Zero
    THEN Raise("ZeroDivisionError", "float division by zero")
    ELSE Ok([Q |-> FMul(eps, FMul(FMin(capacity_rate(hot_stream).v, capacity_rate(cold_stream).v),
                                  FSub(inlet_temperature(hot_stream), inlet_temperature(cold_stream)))),
             T_hot_out  |-> FSub(inlet_temperature(hot_stream),
                                 FMul(eps, FSub(inlet_temperature(hot_stream),
                                                inlet_temperature(cold_stream)))),
             T_cold_out |-> FAdd(inlet_temperature(cold_stream),
                                 FMul(eps, FSub(inlet_temperature(hot_stream),
                                                inlet_temperature(cold_stream))))])

\* A duty calculation that clamps eps into [0, 1].
heat_duty_clamped(eps, hot_stream, cold_stream) ==
    IF ~capacity_rate(hot_stream).ok THEN capacity_rate(hot_stream)
    ELSE IF ~capacity_rate(cold_stream).ok THEN capacity_rate(cold_stream)
    ELSE IF capacity_rate(hot_stream).v = Zero \/ capacity_rate(cold_stream).v = Zero
    THEN Raise("ZeroDivisionError", "float division by zero")
    ELSE Ok([Q |-> FMul(FMax(Zero, FMin(eps, One)),
                        FMul(FMin(capacity_rate(hot_stream).v, capacity_rate(cold_stream).v),
                             FSub(inlet_temperature(hot_stream), inlet_temperature(cold_stream)))),
             T_hot_out  |-> inlet_temperature(hot_stream),
             T_cold_out |-> inlet_temperature(cold_stream)])

\* A duty taken on the larger capacity rate.
heat_duty_from_C_max(eps, hot_stream, cold_stream) ==
    IF ~(FLe(Zero, eps) /\ FLe(eps, One))
    THEN Raise("ValueError", "eps must be between 0 and 1.")
    ELSE IF ~capacity_rate(hot_stream).ok THEN capacity_rate(hot_stream)
    ELSE IF ~capacity_rate(cold_stream).ok THEN capacity_rate(cold_stream)
    ELSE IF capacity_rate(hot_stream).v = Zero \/ capacity_rate(cold_stream).v = Zero
    THEN Raise("ZeroDivisionError", "float division by zero")
    ELSE heat_duty_of_Q(FMul(eps, FMul(FMax(capacity_rate(hot_stream).v,
                                            capacity_rate(cold_stream).v),
                                       FSub(inlet_temperature(hot_stream),
                                            inlet_temperature(cold_stream)))),
                        hot_stream, cold_stream)

heat_duty_from_effectiveness(eps, hot_stream, cold_stream) ==
    IF ~(FLe(Zero, eps) /\ FLe(eps, One))
    THEN Raise("ValueError", "eps must be between 0 and 1.")
    ELSE LET ch == capacity_rate(hot_stream)
             cc == capacity_rate(cold_stream)
         IN  IF ~ch.ok THEN ch
             ELSE IF ~cc.ok THEN cc
             ELSE LET C_hot  == ch.v
                      C_cold == cc.v
                      C_min  == FMin(C_hot, C_cold)
                      Q_max  == FMul(C_min, FSub(inlet_temperature(hot_stream),
                                                 inlet_temperature(cold_stream)))
                      Q      == FMul(eps, Q_max)
                  IN  IF C_hot = Zero \/ C_cold = Zero
                      THEN Raise("ZeroDivisionError", "float division by zero")
                      ELSE Ok([Q |-> Q,
                               T_hot_out  |-> FSub(inlet_temperature(hot_stream), FDiv(Q, C_hot)),
                               T_cold_out |-> FAdd(inlet_temperature(cold_stream), FDiv(Q, C_cold))])

(***************************************************************************)
(* core/heat_transfer/internal_flow.py                                     *)
(* props is a FluidProps record [rho, mu, k, cp].                          *)
(***************************************************************************)
internal_flow_reynolds_number(rho, v, D, mu) ==
    IF FLe(rho, Zero) \/ FLe(mu, Zero) \/ FLe(D, Zero)
    THEN Raise("ValueError", "rho, mu and D must be positive.")
    ELSE Ok(FDiv(FMul(FMul(rho, v), D), mu))

internal_flow_prandtl_number(cp, mu, k) ==
    IF FLe(cp, Zero) \/ FLe(mu, Zero) \/ FLe(k, Zero)
    THEN Raise("ValueError", "cp, mu and k must be positive.")
    ELSE Ok(FDiv(FMul(cp, mu), k))

internal_flow_mean_velocity(m_dot, rho, flow_area_) ==
    IF FLe(m_dot, Zero) \/ FLe(rho, Zero) \/ FLe(flow_area_, Zero)
    THEN Raise("ValueError", "m_dot, rho and flow_area must be positive.")
    ELSE Ok(FDiv(m_dot, FMul(rho, flow_area_)))

\* 1.0 / (0.79 * math.log(Re) - 1.64) ** 2
petukhov(Re) ==
    FDiv(One, FSquare(FSub(FMul(Dec(79, 2), MathLog(Re)), Dec(164, 2))))

\* A friction factor whose laminar branch includes Re = 2300.
friction_factor_laminar_at_2300(Re) ==
    IF FLe(Re, Zero) THEN Raise("ValueError", "Re must be positive.")
    ELSE IF FLe(Re, I(2300)) THEN Ok(FDiv(I(64), Re))
    ELSE Ok(petukhov(Re))

internal_flow_friction_factor_smooth(Re) ==
    IF FLe(Re, Zero) THEN Raise("ValueError", "Re must be positive.")
    ELSE IF FLt(Re, I(2300)) THEN Ok(FDiv(I(64), Re))
    ELSE Ok(petukhov(Re))

nusselt_laminar_fully_developed_const_wall_temp == Dec(366, 2)

nusselt_gnielinski(Re, Pr) ==
    IF FLe(Re, Zero) \/ FLe(Pr, Zero)
    THEN Raise("ValueError", "Re and Pr must be positive.")
    ELSE LET fr == internal_flow_friction_factor_smooth(Re)
         IN  IF ~fr.ok THEN fr
             ELSE LET f         == fr.v
                      numerator == FMul(FMul(FDiv(f, I(8)), FSub(Re, I(1000))), Pr)
                      denom     == FAdd(One,
                                     FMul(FMul(Dec(127, 1), MathSqrt(FDiv(f, I(8)))),
                                          FSub(FPow(Pr, FDiv(I(2), I(3))), One)))
                  IN  Ok(FDiv(numerator, denom))

\* A Nusselt number with no transitional blend: Gnielinski from Re = 2300 on.
nusselt_internal_abrupt(Re, Pr) ==
    IF FLt(Re, I(2300)) THEN Ok(nusselt_laminar_fully_developed_const_wall_temp)
    ELSE nusselt_gnielinski(Re, Pr)

nusselt_internal(Re, Pr) ==
    IF FLt(Re, I(2300)) THEN Ok(nusselt_laminar_fully_developed_const_wall_temp)
    ELSE IF FGt(Re, I(4000)) THEN nusselt_gnielinski(Re, Pr)
    ELSE LET Nu_lam == nusselt_laminar_fully_developed_const_wall_temp
             nt     == nusselt_gnielinski(I(4000), Pr)
             w      == FDiv(FSub(Re, I(2300)), FSub(I(4000), I(2300)))
         IN  IF ~nt.ok THEN nt
             ELSE Ok(FAdd(FMul(FSub(One, w), Nu_lam), FMul(w, nt.v)))

heat_transfer_coefficient_internal(m_dot, tube_inner_diameter, flow_area_, props) ==
    IF FLe(tube_inner_diameter, Zero)
    THEN Raise("ValueError", "tube_inner_diameter must be positive.")
    ELSE LET vr == internal_flow_mean_velocity(m_dot, props.rho, flow_area_)
         IN  IF ~vr.ok THEN vr
         ELSE LET rr == internal_flow_reynolds_number(props.rho, vr.v, tube_inner_diameter, props.mu)
         IN  IF ~rr.ok THEN rr
         ELSE LET pr == internal_flow_prandtl_number(props.cp, props.mu, props.k)
         IN  IF ~pr.ok THEN pr
         ELSE LET nr == nusselt_internal(rr.v, pr.v)
         IN  IF ~nr.ok THEN nr
         ELSE Ok([v |-> vr.v, Re |-> rr.v, Pr |-> pr.v,
                  h |-> FDiv(FMul(nr.v, props.k), tube_inner_diameter)])

(***************************************************************************)
(* core/heat_transfer/internal_pressure_drop.py                            *)
(* props is a FluidProps record [rho, mu].                                 *)
(***************************************************************************)
internal_pressure_drop_mean_velocity(m_dot, rho, flow_area_) ==
    IF FLe(m_dot, Zero) THEN Raise("ValueError", "m_dot must be positive.")
    ELSE IF FLe(rho, Zero) THEN Raise("ValueError", "rho must be positive.")
    ELSE IF FLe(flow_area_, Zero) THEN Raise("ValueError", "flow_area must be positive.")
    ELSE Ok(FDiv(m_dot, FMul(rho, flow_area_)))

internal_pressure_drop_reynolds_number(rho, v, D, mu) ==
    IF FLe(rho, Zero) \/ FLe(mu, Zero) \/ FLe(D, Zero) \/ FLe(v, Zero)
    THEN Raise("ValueError", "rho, mu, D, v must be positive.")
    ELSE Ok(FDiv(FMul(FMul(rho, v), D), mu))

internal_pressure_drop_friction_factor_smooth(Re) ==
    IF FLe(Re, Zero) THEN Raise("ValueError", "Re must be positive.")
    ELSE IF FLt(Re, I(2300)) THEN Ok(FDiv(I(64), Re))
    ELSE Ok(petukhov(Re))

dynamic_pressure(rho, v) ==
    IF FLe(rho, Zero) \/ FLe(v, Zero)
    THEN Raise("ValueError", "rho and v must be positive.")
    ELSE Ok(FDiv(FMul(FMul(rho, v), v), I(2)))

pressure_drop_tubes(f, L, D, rho, v) ==
    IF FLe(f, Zero) THEN Raise("ValueError", "f must be positive.")
    ELSE IF FLe(L, Zero) \/ FLe(D, Zero)
    THEN Raise("ValueError", "L and D must be positive.")
    ELSE LET q == dynamic_pressure(rho, v)
         IN  IF ~q.ok THEN q ELSE Ok(FMul(FMul(f, FDiv(L, D)), q.v))

pressure_drop_inlet(rho, v, K_in) ==
    IF FLt(K_in, Zero) THEN Raise("ValueError", "K_in must be non-negative.")
    ELSE LET q == dynamic_pressure(rho, v)
         IN  IF ~q.ok THEN q ELSE Ok(FMul(K_in, q.v))

pressure_drop_outlet(rho, v, K_out) ==
    IF FLt(K_out, Zero) THEN Raise("ValueError", "K_out must be non-negative.")
    ELSE LET q == dynamic_pressure(rho, v)
         IN  IF ~q.ok THEN q ELSE Ok(FMul(K_out, q.v))

\* n_turns is a Python int.
pressure_drop_turns(rho, v, n_turns_, K_turn) ==
    IF n_turns_ < 0 THEN Raise("ValueError", "n_turns must be non-negative.")
    ELSE IF FLt(K_turn, Zero) THEN Raise("ValueError", "K_turn must be non-negative.")
    ELSE LET q == dynamic_pressure(rho, v)
         IN  IF ~q.ok THEN q ELSE Ok(FMul(FMul(I(n_turns_), K_turn), q.v))

\* A total that leaves the return bends out.
dp_sum_without_turns(dp_t, dp_in, dp_out, dp_turn) == FAdd(FAdd(dp_t, dp_in), dp_out)

\* dp_total = dp_t + dp_in + dp_out + dp_turn, summed left to right.
dp_sum(dp_t, dp_in, dp_out, dp_turn) ==
    FAdd(FAdd(FAdd(dp_t, dp_in), dp_out), dp_turn)

pressure_drop_internal_total(m_dot, flow_area_, hydraulic_diameter_, flow_length, props, n_turns_, K_in, K_out, K_turn) ==
    IF FLe(flow_area_, Zero) \/ FLe(hydraulic_diameter_, Zero) \/ FLe(flow_length, Zero)
    THEN Raise("ValueError", "flow_area, hydraulic_diameter, flow_length must be positive.")
    ELSE LET vr == internal_pressure_drop_mean_velocity(m_dot, props.rho, flow_area_)
         IN  IF ~vr.ok THEN vr
         ELSE LET rr == internal_pressure_drop_reynolds_number(props.rho, vr.v, hydraulic_diameter_, props.mu)
         IN  IF ~rr.ok THEN rr
         ELSE LET fr == internal_pressure_drop_friction_factor_smooth(rr.v)
         IN  IF ~fr.ok THEN fr
         ELSE LET dt == pressure_drop_tubes(fr.v, flow_length, hydraulic_diameter_, props.rho, vr.v)
         IN  IF ~dt.ok THEN dt
         ELSE LET di == pressure_drop_inlet(props.rho, vr.v, K_in)
         IN  IF ~di.ok THEN di
         ELSE LET do == pressure_drop_outlet(props.rho, vr.v, K_out)
         IN  IF ~do.ok THEN do
         ELSE LET du == pressure_drop_turns(props.rho, vr.v, n_turns_, K_turn)
         IN  IF ~du.ok THEN du
         ELSE Ok([dp_total |-> dp_sum(dt.v, di.v, do.v, du.v),
                  dp_tubes |-> dt.v, dp_inlet |-> di.v, dp_outlet |-> do.v,
                  dp_turns |-> du.v, Re |-> rr.v, f |-> fr.v, v |-> vr.v])

(***************************************************************************)
(* core/heat_transfer/outside_flow.py                                      *)
(***************************************************************************)
outside_flow_reynolds_number(rho, v, D, mu) ==
    IF FLe(rho, Zero) \/ FLe(mu, Zero) \/ FLe(D, Zero) \/ FLe(v, Zero)
    THEN Raise("ValueError", "rho, mu, D, v must be positive.")
    ELSE Ok(FDiv(FMul(FMul(rho, v), D), mu))

outside_flow_prandtl_number(cp, mu, k) ==
    IF FLe(cp, Zero) \/ FLe(mu, Zero) \/ FLe(k, Zero)
    THEN Raise("ValueError", "cp, mu, k must be positive.")
    ELSE Ok(FDiv(FMul(cp, mu), k))

\* Bands whose upper bounds are inclusive.
zukauskas_C_m_upper_inclusive(Re) ==
    IF FLe(Re, I(100)) THEN <<Dec(90, 2), Dec(40, 2)>>
    ELSE IF FLe(Re, I(1000)) THEN <<Dec(52, 2), Dec(50, 2)>>
    ELSE IF FLe(Re, Fin(2, 5)) THEN <<Dec(27, 2), Dec(63, 2)>>
    ELSE <<Dec(21, 3), Dec(84, 2)>>

\* The coefficient pair (C, m) of the Reynolds band.
zukauskas_C_m(Re) ==
    IF FLt(Re, I(100)) THEN <<Dec(90, 2), Dec(40, 2)>>
    ELSE IF FLt(Re, I(1000)) THEN <<Dec(52, 2), Dec(50, 2)>>
    ELSE IF FLt(Re, Fin(2, 5)) THEN <<Dec(27, 2), Dec(63, 2)>>
    ELSE <<Dec(21, 3), Dec(84, 2)>>

nusselt_zukauskas(Re, Pr, n_rows) ==
    IF FLe(Re, Zero) \/ FLe(Pr, Zero)
    THEN Raise("ValueError", "Re and Pr must be positive.")
    ELSE IF n_rows <= 0 THEN Raise("ValueError", "n_rows must be positive.")
    ELSE LET C  == zukauskas_C_m(Re)[1]
             m  == zukauskas_C_m(Re)[2]
             Nu == FMul(FMul(C, FPow(Re, m)), FPow(Pr, Dec(36, 2)))
         IN  IF n_rows < 20
             THEN Ok(FMul(Nu, FPow(FDiv(I(n_rows), I(20)), Dec(20, 2))))
             ELSE Ok(Nu)

outside_flow_from_mass_flow(m_dot, frontal_area, tube_outer_diameter, n_rows, props, zeta_dp) ==
    IF FLe(m_dot, Zero) THEN Raise("ValueError", "m_dot must be positive.")
    ELSE IF FLe(frontal_area, Zero) THEN Raise("ValueError", "frontal_area must be positive.")
    ELSE IF FLe(tube_outer_diameter, Zero) THEN Raise("ValueError", "tube_outer_diameter must be positive.")
    ELSE IF FLe(zeta_dp, Zero) THEN Raise("ValueError", "zeta_dp must be positive.")
    ELSE IF FMul(props.rho, frontal_area) = Zero
    THEN Raise("ZeroDivisionError", "float division by zero")
    ELSE LET v  == FDiv(m_dot, FMul(props.rho, frontal_area))
             rr == outside_flow_reynolds_number(props.rho, v, tube_outer_diameter, props.mu)
         IN  IF ~rr.ok THEN rr
         ELSE LET pr == outside_flow_prandtl_number(props.cp, props.mu, props.k)
         IN  IF ~pr.ok THEN pr
         ELSE LET nr == nusselt_zukauskas(rr.v, pr.v, n_rows)
         IN  IF ~nr.ok THEN nr
         ELSE Ok([v |-> v, Re |-> rr.v, Pr |-> pr.v,
                  h_o |-> FDiv(FMul(nr.v, props.k), tube_outer_diameter),
                  dp_o |-> FMul(FMul(zeta_dp, I(n_rows)),
                                FDiv(FMul(FMul(props.rho, v), v), I(2)))])

(***************************************************************************)
(* core/models/bare_tube.py                                                *)
(* An exchanger is [bundle, wall_k]; wall_k is a float or None.            *)
(***************************************************************************)
\* flow_arrangement = None, for an argument that is a str or None.
NoneStr == "<None>"

\* outside_props = None, for an argument that is a FluidProps or None.
NoProps == [rho |-> None, mu |-> None, k |-> None, cp |-> None]

BareTubeHeatExchanger(bundle, wall_k) == [bundle |-> bundle, wall_k |-> wall_k]

\* A wall that is never taken into account.
tube_wall_resistance_ignored(self) == Ok(Zero)

tube_wall_resistance(self) ==
    IF self.wall_k = None THEN Ok(Zero)
    ELSE IF FLe(self.wall_k, Zero) THEN Raise("ValueError", "wall_k must be positive.")
    ELSE LET tube  == self.bundle.tube
             Di    == tube.D_i
             Do    == tube.D_o
             L_eff == tube.length_effective
         IN  IF FLe(Do, Di)
             THEN Raise("ValueError", "Tube outer diameter must exceed inner diameter.")
             ELSE Ok(FDiv(MathLog(FDiv(Do, Di)),
                          FMul(FMul(FMul(FMul(I(2), MathPi), self.wall_k), L_eff),
                               I(n_tubes_total(self.bundle)))))

\* The outside-side block of solve: (v_o, Re_o, Pr_o, h_o_calc, dp_o).
solve_outside(self, a) ==
    IF a.m_dot_outside # None /\ a.outside_props # NoProps
    THEN outside_flow_from_mass_flow(a.m_dot_outside, frontal_flow_area(self.bundle),
                                     self.bundle.tube.D_o, self.bundle.n_rows,
                                     a.outside_props, a.zeta_dp_outside)
    ELSE Ok([v |-> NaN, Re |-> NaN, Pr |-> NaN, h_o |-> None, dp_o |-> NaN])

\* A choice that prefers the computed coefficient to the override.
solve_h_o_used_computed_first(h_o, h_o_calc) ==
    IF h_o_calc # None THEN Ok(h_o_calc)
    ELSE IF h_o # None THEN Ok(h_o)
    ELSE Raise("ValueError", "Outside side not specified.")

\* A choice that falls back on a unit coefficient when neither is available.
solve_h_o_used_defaulted(h_o, h_o_calc) ==
    IF h_o # None THEN Ok(h_o)
    ELSE IF h_o_calc # None THEN Ok(h_o_calc)
    ELSE Ok(One)

\* h_o_used: the override if given, else the computed coefficient.
solve_h_o_used(h_o, h_o_calc) ==
    IF h_o # None
    THEN IF FLe(h_o, Zero)
         THEN Raise("ValueError", "h_o must be positive when provided.")
         ELSE Ok(h_o)
    ELSE IF h_o_calc = None
         THEN Raise("ValueError", "Outside side not specified.")
         ELSE Ok(h_o_calc)

\* The overall conductance block of solve: R_i, R_o, R_w, R_tot, UA.
solve_UA(self, h_i, A_i, h_o_used, A_o) ==
    LET R_i == FDiv(One, FMul(h_i, A_i))
        R_o == FDiv(One, FMul(h_o_used, A_o))
        rw  == tube_wall_resistance(self)
    IN  IF ~rw.ok THEN rw
        ELSE LET R_tot == FAdd(FAdd(R_i, rw.v), R_o)
             IN  IF FLe(R_tot, Zero)
                 THEN Raise("ValueError", "Invalid total thermal resistance.")
                 ELSE Ok(FDiv(One, R_tot))

\* The epsilon-NTU block of solve and the assembly of HXResult.
solve_duty(self, a, UA, tube_thermal, tube_hyd, outside_thermal, outside_hyd, er) ==
    IF ~er.ok THEN er
    ELSE Ok([A_i |-> total_inner_area(self.bundle),
             A_o |-> total_outer_area(self.bundle),
             A_frontal |-> frontal_flow_area(self.bundle),
             UA |-> UA, eps |-> er.v.eps, Q |-> er.v.Q,
             T_hot_out |-> er.v.T_hot_out, T_cold_out |-> er.v.T_cold_out,
             tube_side_thermal |-> tube_thermal,
             tube_side_hydraulic |-> tube_hyd,
             outside_side_thermal |-> outside_thermal,
             outside_side_hydraulic |-> outside_hyd])

\* effectiveness_ntu on the streams' capacity rates, then the duty.
solve_eps_duty(eps, hot_stream, cold_stream, qr) ==
    IF ~qr.ok THEN qr
    ELSE Ok([eps |-> eps, Q |-> qr.v.Q,
             T_hot_out |-> qr.v.T_hot_out, T_cold_out |-> qr.v.T_cold_out])

solve_eps_of(er, hot_stream, cold_stream) ==
    IF ~er.ok THEN er
    ELSE solve_eps_duty(er.v, hot_stream, cold_stream,
                        heat_duty_from_effectiveness(er.v, hot_stream, cold_stream))

solve_eps(ch, cc, UA, fa, hot_stream, cold_stream) ==
    IF ~ch.ok THEN ch
    ELSE IF ~cc.ok THEN cc
    ELSE solve_eps_of(effectiveness_ntu(ch.v, cc.v, UA, fa), hot_stream, cold_stream)

\* From the overall conductance on.
solve_from_UA(self, a, fa, tube_thermal, tube_hyd, outside_thermal, outside_hyd, ua) ==
    IF ~ua.ok THEN ua
    ELSE solve_duty(self, a, ua.v, tube_thermal, tube_hyd, outside_thermal, outside_hyd,
                    solve_eps(capacity_rate(a.hot_stream), capacity_rate(a.cold_stream),
                              ua.v, fa, a.hot_stream, a.cold_stream))

\* From the choice of the outside coefficient on.
solve_from_h_o(self, a, fa, tube_thermal, tube_hyd, out, hu) ==
    IF ~hu.ok THEN hu
    ELSE solve_from_UA(self, a, fa, tube_thermal, tube_hyd,
                       [v |-> out.v, Re |-> out.Re, Pr |-> out.Pr, h |-> hu.v],
                       [dp_total |-> out.dp_o, Re |-> out.Re, v |-> out.v],
                       solve_UA(self, tube_thermal.h, total_inner_area(self.bundle),
                                hu.v, total_outer_area(self.bundle)))

\* From the outside-side block on.
solve_from_outside(self, a, fa, tube_thermal, tube_hyd, out) ==
    IF ~out.ok THEN out
    ELSE solve_from_h_o(self, a, fa, tube_thermal, tube_hyd, out.v,
                        solve_h_o_used(a.h_o, out.v.h_o))

\* From the tube-side hydraulic block on.
solve_from_hydraulic(self, a, fa, tube_thermal, th) ==
    IF ~th.ok THEN th
    ELSE solve_from_outside(self, a, fa, tube_thermal, th.v, solve_outside(self, a))

\* From the tube-side thermal block on.
solve_from_thermal(self, a, fa, tt) ==
    IF ~tt.ok THEN tt
    ELSE solve_from_hydraulic(self, a, fa, tt.v,
             pressure_drop_internal_total(
                 a.m_dot_tube_side, internal_flow_area_per_pass(self.bundle),
                 internal_hydraulic_diameter(self.bundle),
                 internal_length_total(self.bundle),
                 [rho |-> a.tube_side_props.rho, mu |-> a.tube_side_props.mu],
                 n_turns(self.bundle), a.K_inlet, a.K_outlet, a.K_turn))

\* A solve that stores an effective capacity rate in a moist-air stream that
\* has none.
solve_effects_sets_C_eff(self, a) ==
    [exchanger   |-> self,
     hot_stream  |-> IF a.hot_stream.cls = "MoistAirStream" /\ a.hot_stream.C_eff = None
                     THEN [a.hot_stream EXCEPT !.C_eff = FMul(a.hot_stream.m_dot, I(1005))]
                     ELSE a.hot_stream,
     cold_stream |-> IF a.cold_stream.cls = "MoistAirStream" /\ a.cold_stream.C_eff = None
                     THEN [a.cold_stream EXCEPT !.C_eff = FMul(a.cold_stream.m_dot, I(1005))]
                     ELSE a.cold_stream]

\* The exchanger and the two stream objects after a call of solve: solve
\* binds local names only, and the stream methods it calls (capacity_rate,
\* inlet_temperature) assign nothing.
solve_effects(self, a) ==
    [exchanger |-> self, hot_stream |-> a.hot_stream, cold_stream |-> a.cold_stream]

\* A solve that always takes the bundle's flow arrangement.
solve_bundle_arrangement(self, a) ==
    IF FLe(a.m_dot_tube_side, Zero)
    THEN Raise("ValueError", "m_dot_tube_side must be positive.")
    ELSE solve_from_thermal(self, a, self.bundle.flow_arrangement,
             heat_transfer_coefficient_internal(
                 a.m_dot_tube_side, internal_hydraulic_diameter(self.bundle),
                 internal_flow_area_per_pass(self.bundle), a.tube_side_props))

\* A solve that rejects an unsupported arrangement name before anything else.
solve_name_first(self, a) ==
    IF Lower(IF a.flow_arrangement = NoneStr
             THEN self.bundle.flow_arrangement ELSE a.flow_arrangement)
           \notin {"counterflow", "cocurrentflow", "crossflow"}
    THEN Raise("ValueError", "Unsupported flow_arrangement")
    ELSE IF FLe(a.m_dot_tube_side, Zero)
    THEN Raise("ValueError", "m_dot_tube_side must be positive.")
    ELSE solve_from_thermal(self, a,
             IF a.flow_arrangement = NoneStr
             THEN self.bundle.flow_arrangement ELSE a.flow_arrangement,
             heat_transfer_coefficient_internal(
                 a.m_dot_tube_side, internal_hydraulic_diameter(self.bundle),
                 internal_flow_area_per_pass(self.bundle), a.tube_side_props))

solve(self, a) ==
    IF FLe(a.m_dot_tube_side, Zero)
    THEN Raise("ValueError", "m_dot_tube_side must be positive.")
    ELSE solve_from_thermal(self, a,
             IF a.flow_arrangement = NoneStr
             THEN self.bundle.flow_arrangement ELSE a.flow_arrangement,
             heat_transfer_coefficient_internal(
                 a.m_dot_tube_side, internal_hydraulic_diameter(self.bundle),
                 internal_flow_area_per_pass(self.bundle), a.tube_side_props))

(***************************************************************************)
(* Inputs.  The values are those of a water-in-tubes, air-outside          *)
(* exchanger; an invalid value replaces a valid one.                       *)
(***************************************************************************)
\* The largest row, tubes-per-row and pass counts a TubeBundle is built with.
MaxRows == 4

MaxTubesPerRow == 5

MaxPasses == 3

\* The number of arguments by which a solve call differs from a base call.
MaxDeviations == 2

Tube == BareTube(Dec(1, 2), Dec(14, 3), I(2), Dec(18, 1)).v

BundleArgs ==
    [tube : {Tube},
     n_rows : 0..MaxRows,
     n_tubes_per_row : 0..MaxTubesPerRow,
     pitch_transverse : {Dec(3, 2), Zero},
     pitch_longitudinal : {Dec(3, 2), Dec(-3, 2)},
     layout : {"inline", "Staggered", "hexagonal"},
     n_passes_tube : 0..MaxPasses,
     flow_arrangement : {"crossflow", "CounterFlow", "diagonal"}]

BaseBundle ==
    [tube |-> Tube, n_rows |-> 4, n_tubes_per_row |-> 5,
     pitch_transverse |-> Dec(3, 2), pitch_longitudinal |-> Dec(3, 2),
     layout |-> "inline", n_passes_tube |-> 2, flow_arrangement |-> "crossflow"]

\* The bundles an exchanger is built on: instances that exist.
Bundles ==
    {b \in {BaseBundle,
            [BaseBundle EXCEPT !.n_passes_tube = 1, !.flow_arrangement = "CounterFlow"],
            [BaseBundle EXCEPT !.n_rows = 2, !.n_tubes_per_row = 3, !.n_passes_tube = 3,
                               !.flow_arrangement = "cocurrentflow"]} :
        TubeBundle(b).ok}

Water == [rho |-> I(1000), mu |-> Dec(1, 3), k |-> Dec(6, 1), cp |-> I(4180)]

Air == [rho |-> Dec(12, 1), mu |-> Dec(18, 6), k |-> Dec(26, 3), cp |-> I(1005)]

\* A FluidProps with one property replaced by zero or by a negative value.
BadProps(p) ==
    {[p EXCEPT ![f] = x] : f \in {"rho", "mu", "k", "cp"}, x \in {Zero, I(-1)}}

Streams ==
    {s.v : s \in {r \in {SensibleHeatStream(I(2090), I(350)),
                         SensibleHeatStream(I(1005), I(350)),
                         SensibleHeatStream(I(1005), I(300)),
                         SensibleHeatStream(Zero, I(300)),
                         CondensingSteamStream(I(373)),
                         CondensingSteamStream(I(300)),
                         MoistAirStream(I(1), I(50000), I(300), I(1200)),
                         MoistAirStream(I(1), I(90000), I(350), I(1200)),
                         MoistAirStream(I(1), I(50000), I(300), Zero),
                         MoistAirStream(I(1), I(50000), I(300), None),
                         MoistAirStream(Zero, I(50000), I(300), None)} : r.ok}}

\* A solve on an exchanger with the outside coefficient computed.
BaseSolve ==
    [bundle |-> BaseBundle, wall_k |-> None,
     hot_stream |-> SensibleHeatStream(I(2090), I(350)).v,
     cold_stream |-> SensibleHeatStream(I(1005), I(300)).v,
     m_dot_tube_side |-> Dec(5, 1), tube_side_props |-> Water,
     m_dot_outside |-> I(1), outside_props |-> Air, zeta_dp_outside |-> Dec(12, 1),
     K_inlet |-> Dec(5, 1), K_outlet |-> I(1), K_turn |-> Dec(15, 1),
     h_o |-> None, flow_arrangement |-> NoneStr]

\* A solve with the coefficient given and no outside flow.
BaseSolveOverride ==
    [BaseSolve EXCEPT !.m_dot_outside = None, !.outside_props = NoProps, !.h_o = I(50)]

\* The values each argument of a solve call is varied over.
SolveChoices ==
       {<<"bundle", b>> : b \in Bundles}
  \cup {<<"wall_k", x>> : x \in {None, I(16), Zero, I(-16)}}
  \cup {<<"hot_stream", s>> : s \in Streams}
  \cup {<<"cold_stream", s>> : s \in Streams}
  \cup {<<"m_dot_tube_side", x>> : x \in {Dec(5, 1), Dec(25, 2), Dec(1, 1), Zero, I(-1)}}
  \cup {<<"tube_side_props", p>> : p \in {Water} \cup BadProps(Water)}
  \cup {<<"m_dot_outside", x>> : x \in {I(1), None, Zero}}
  \cup {<<"outside_props", p>> : p \in {Air, NoProps} \cup BadProps(Air)}
  \cup {<<"zeta_dp_outside", x>> : x \in {Dec(12, 1), Zero}}
  \cup {<<"K_inlet", x>> : x \in {Dec(5, 1), Zero, I(-1)}}
  \cup {<<"K_outlet", x>> : x \in {I(1), I(-1)}}
  \cup {<<"K_turn", x>> : x \in {Dec(15, 1), I(-1)}}
  \cup {<<"h_o", x>> : x \in {None, I(50), Zero, I(-50)}}
  \cup {<<"flow_arrangement", x>> :
            x \in {NoneStr, "counterflow", "cocurrentflow", "crossflow", "CounterFlow", "parallel"}}

RECURSIVE Vary(_, _)
\* The calls that differ from one of S in at most n arguments.
Vary(S, n) ==
    IF n = 0 THEN S
    ELSE Vary(S \cup {[s EXCEPT ![c[1]] = c[2]] : s \in S, c \in SolveChoices}, n - 1)

SolveCalls == Vary({BaseSolve, BaseSolveOverride}, MaxDeviations)

\* The arguments of the direct calls of the correlation functions.
EffectivenessArgs ==
    [C_hot : {I(1), I(1000), I(1005), I(1500), Inf, Zero, I(-5)},
     C_cold : {I(1), Dec(9999, 1), I(1000), I(1500), Inf, Zero},
     UA : {Dec(1, 3), I(1), I(2000), Fin(1, 6), Zero, I(-1)},
     flow_arrangement : {"counterflow", "cocurrentflow", "crossflow",
                         "CounterFlow", "CROSSFLOW", "parallel"}]

\* Two streams of equal capacity rate at 90 and 5 (degrees on a scale where
\* the rounding of an outlet temperature shows in the last digit).
EqualRateStreams ==
    {SensibleHeatStream(I(2090), I(90)).v, SensibleHeatStream(I(2090), I(5)).v}

HeatDutyArgs ==
    [eps : {Zero, Dec(25, 2), Dec(5, 1), One, Dec(-1, 1), Dec(11, 1), NaN},
     hot_stream : Streams \cup EqualRateStreams,
     cold_stream : Streams \cup EqualRateStreams]

PressureDropArgs ==
    [m_dot : {Dec(5, 1), Dec(1, 1), Zero},
     flow_area : {Dec(7854, 7), Zero},
     hydraulic_diameter : {Dec(1, 2), Zero},
     flow_length : {I(4), Zero},
     props : {[rho |-> x, mu |-> y] : x \in {I(1000), Zero, I(-1)}, y \in {Dec(1, 3), Zero}},
     n_turns : {-1, 0, 1, 2},
     K_in : {Dec(5, 1), Zero, I(-1)},
     K_out : {I(1), I(-1)},
     K_turn : {Dec(15, 1), Zero, I(-1)}]

InternalFlowArgs ==
    [m_dot : {Dec(5, 1), Dec(25, 2), Dec(1, 1), Zero, I(-1)},
     tube_inner_diameter : {Dec(1, 2), Zero, Dec(-1, 2)},
     flow_area : {Dec(7854, 7), Zero},
     props : {Water} \cup BadProps(Water)]

OutsideFlowArgs ==
    [m_dot : {I(1), I(100), Zero},
     frontal_area : {Dec(27, 2), Zero},
     tube_outer_diameter : {Dec(14, 3), Zero},
     n_rows : {0, 1, 4, 20, 25},
     props : {Air} \cup BadProps(Air),
     zeta_dp : {Dec(12, 1), Zero}]

\* The Reynolds numbers around the regime boundaries of the tube-side
\* correlations, and the module whose friction_factor_smooth is called.
FrictionArgs ==
    [module : {"internal_flow", "internal_pressure_drop"},
     Re : {I(-1), Zero, Dec(1, 3), I(1), I(100), I(2299), I(2300), I(2301),
           I(3000), I(4000), I(4001), Fin(1, 5), Fin(5, 6)}]

NusseltInternalArgs ==
    [Re : {I(-1), Zero, I(100), I(2299), I(2300), I(2301), I(2725), I(3150),
           I(3999), I(4000), I(4001), Fin(1, 5)},
     Pr : {Dec(7, 1), Dec(6967, 3), I(50), Zero, I(-1)}]

\* The Reynolds numbers around the band boundaries of the tube-bank
\* correlation, and the row counts around the row-correction limit.
NusseltZukauskasArgs ==
    [Re : {I(-1), Zero, I(50), Dec(9999, 2), I(100), Dec(9999, 1), I(1000),
           I(199900), Fin(2, 5), Fin(1, 6)},
     Pr : {Dec(7, 1), I(7), Zero},
     n_rows : {0, 1, 4, 19, 20, 21, 40}]

(***************************************************************************)
(* The state: the operation invoked (op) with its arguments (args), on the *)
(* exchanger self where it is a method; pc is "call" until the operation   *)
(* has run, and ret is then what it returned or raised.                    *)
(***************************************************************************)
\* history: the outcomes ("returned" / "raised") of the solve calls made
\* earlier on the exchanger, oldest first.
VARIABLES op, self, args, pc, ret, history

vars == <<op, self, args, pc, ret, history>>

\* No exchanger: the operation is a function or a constructor.
NoSelf == [bundle |-> <<>>, wall_k |-> None]

Pending == [ok |-> FALSE, exc |-> "", msg |-> "pending", v |-> <<>>]

SolveArgNames ==
    {"hot_stream", "cold_stream", "m_dot_tube_side", "tube_side_props",
     "m_dot_outside", "outside_props", "zeta_dp_outside", "K_inlet", "K_outlet",
     "K_turn", "h_o", "flow_arrangement"}

Init ==
    /\ pc = "call"
    /\ ret = Pending
    /\ history = <<>>
    /\ \/ /\ op = "TubeBundle"
          /\ self = NoSelf
          /\ args \in BundleArgs
       \/ /\ op = "solve"
          /\ \E c \in SolveCalls :
                /\ self = BareTubeHeatExchanger(c.bundle, c.wall_k)
                /\ args = [n \in SolveArgNames |-> c[n]]
       \/ /\ op = "effectiveness_ntu"
          /\ self = NoSelf
          /\ args \in EffectivenessArgs
       \/ /\ op = "heat_duty_from_effectiveness"
          /\ self = NoSelf
          /\ args \in HeatDutyArgs
       \/ /\ op = "pressure_drop_internal_total"
          /\ self = NoSelf
          /\ args \in PressureDropArgs
       \/ /\ op = "heat_transfer_coefficient_internal"
          /\ self = NoSelf
          /\ args \in InternalFlowArgs
       \/ /\ op = "outside_flow_from_mass_flow"
          /\ self = NoSelf
          /\ args \in OutsideFlowArgs
       \/ /\ op = "friction_factor_smooth"
          /\ self = NoSelf
          /\ args \in FrictionArgs
       \/ /\ op = "nusselt_internal"
          /\ self = NoSelf
          /\ args \in NusseltInternalArgs
       \/ /\ op = "nusselt_zukauskas"
          /\ self = NoSelf
          /\ args \in NusseltZukauskasArgs

\* An operation runs to completion: it returns or raises, and leaves the
\* exchanger and its arguments as they were.
Return(r) ==
    /\ pc = "call"
    /\ pc' = "done"
    /\ ret' = r
    /\ UNCHANGED <<op, self, args, history>>

NewTubeBundle ==
    /\ op = "TubeBundle"
    /\ Return(TubeBundle(args))

Solve ==
    /\ op = "solve"
    /\ Return(solve(self, args))

EffectivenessNtu ==
    /\ op = "effectiveness_ntu"
    /\ Return(effectiveness_ntu(args.C_hot, args.C_cold, args.UA, args.flow_arrangement))

HeatDutyFromEffectiveness ==
    /\ op = "heat_duty_from_effectiveness"
    /\ Return(heat_duty_from_effectiveness(args.eps, args.hot_stream, args.cold_stream))

PressureDropInternalTotal ==
    /\ op = "pressure_drop_internal_total"
    /\ Return(pressure_drop_internal_total(args.m_dot, args.flow_area,
                  args.hydraulic_diameter, args.flow_length, args.props,
                  args.n_turns, args.K_in, args.K_out, args.K_turn))

HeatTransferCoefficientInternal ==
    /\ op = "heat_transfer_coefficient_internal"
    /\ Return(heat_transfer_coefficient_internal(args.m_dot, args.tube_inner_diameter,
                  args.flow_area, args.props))

OutsideFlowFromMassFlow ==
    /\ op = "outside_flow_from_mass_flow"
    /\ Return(outside_flow_from_mass_flow(args.m_dot, args.frontal_area,
                  args.tube_outer_diameter, args.n_rows, args.props, args.zeta_dp))

\* friction_factor_smooth of the module named in the call.
FrictionFactorSmooth ==
    /\ op = "friction_factor_smooth"
    /\ Return(IF args.module = "internal_flow"
              THEN internal_flow_friction_factor_smooth(args.Re)
              ELSE internal_pressure_drop_friction_factor_smooth(args.Re))

NusseltInternal ==
    /\ op = "nusselt_internal"
    /\ Return(nusselt_internal(args.Re, args.Pr))

NusseltZukauskas ==
    /\ op = "nusselt_zukauskas"
    /\ Return(nusselt_zukauskas(args.Re, args.Pr, args.n_rows))

Next ==
    \/ NewTubeBundle
    \/ Solve
    \/ EffectivenessNtu
    \/ HeatDutyFromEffectiveness
    \/ PressureDropInternalTotal
    \/ HeatTransferCoefficientInternal
    \/ OutsideFlowFromMassFlow
    \/ FrictionFactorSmooth
    \/ NusseltInternal
    \/ NusseltZukauskas

Spec == Init /\ [][Next]_vars

(***************************************************************************)
(* A session: solve calls made one after the other on one exchanger.       *)
(***************************************************************************)
MaxCalls == 2

SessionExchangers ==
    {BareTubeHeatExchanger(b, k) : b \in Bundles, k \in {None, I(16), Zero}}

\* The calls of a session: all arguments but the exchanger's own.
SessionCalls ==
    {[n \in SolveArgNames |-> c[n]] : c \in Vary({BaseSolve, BaseSolveOverride}, 1)}

SessionInit ==
    /\ op = "solve"
    /\ pc = "call"
    /\ ret = Pending
    /\ history = <<>>
    /\ self \in SessionExchangers
    /\ args \in SessionCalls

Outcome(r) == IF r.ok THEN "returned" ELSE "raised"

\* solve runs to completion. The exchanger and the two streams after the
\* call are those solve_effects gives; the streams stay in the caller's
\* hands as the arguments it passed.
SessionSolve ==
    /\ op = "solve"
    /\ pc = "call"
    /\ pc' = "done"
    /\ ret' = solve(self, args)
    /\ self' = solve_effects(self, args).exchanger
    /\ args' = [args EXCEPT !.hot_stream = solve_effects(self, args).hot_stream,
                            !.cold_stream = solve_effects(self, args).cold_stream]
    /\ UNCHANGED <<op, history>>

\* The caller records the outcome and calls solve again on the same
\* exchanger, with any arguments.
NextSolve ==
    /\ op = "solve"
    /\ pc = "done"
    /\ Len(history) < MaxCalls
    /\ pc' = "call"
    /\ ret' = Pending
    /\ history' = Append(history, Outcome(ret))
    /\ args' \in SessionCalls
    /\ UNCHANGED <<op, self>>

SessionNext ==
    \/ SessionSolve
    \/ NextSolve

SessionSpec == SessionInit /\ [][SessionNext]_vars


(***************************************************************************)
(* Properties.                                                             *)
(***************************************************************************)
Positive(x) == FGt(x, Zero)

NonNegative(x) == FGe(x, Zero)

PropsPositive(p) == Positive(p.rho) /\ Positive(p.mu) /\ Positive(p.k) /\ Positive(p.cp)

\* The tube-side arguments of a solve call pass every tube-side validation.
TubeSideValid ==
    /\ Positive(args.m_dot_tube_side)
    /\ PropsPositive(args.tube_side_props)
    /\ NonNegative(args.K_inlet)
    /\ NonNegative(args.K_outlet)
    /\ NonNegative(args.K_turn)

SolveDone == op = "solve" /\ pc = "done"

OutsideMissing == args.m_dot_outside = None \/ args.outside_props = NoProps

MissingOutside(r) ==
    ~r.ok /\ r.exc = "ValueError" /\ r.msg = "Outside side not specified."

\* C1: a solve with no h_o override and with m_dot_outside or outside_props
\* absent raises the missing-outside-side ValueError and returns no result,
\* whatever the valid tube-side inputs, the streams and the wall are.
C1_MissingOutsideFails ==
    (SolveDone /\ args.h_o = None /\ OutsideMissing /\ TubeSideValid)
        => MissingOutside(ret)

\* A solve given the outside mass flow but no outside properties, and no h_o.
C1_Witness ==
    /\ SolveDone
    /\ args.h_o = None
    /\ args.m_dot_outside # None
    /\ args.outside_props = NoProps
    /\ TubeSideValid
    /\ MissingOutside(ret)

\* C2: in every successful solve given h_o, the coefficient reported as
\* outside_side_thermal.h is h_o and UA is formed from R_o = 1 / (h_o * A_o),
\* whether or not the outside flow was given too; and no solve given
\* h_o <= 0 succeeds.
C2_OverrideTakesPrecedence ==
    (SolveDone /\ args.h_o # None)
        => /\ ret.ok =>
                /\ ret.v.outside_side_thermal.h = args.h_o
                /\ Ok(ret.v.UA) = solve_UA(self, ret.v.tube_side_thermal.h,
                                           total_inner_area(self.bundle), args.h_o,
                                           total_outer_area(self.bundle))
           /\ FLe(args.h_o, Zero) => ~ret.ok

\* A successful solve given h_o and the outside flow, whose computed
\* coefficient (reached through the same outside-side block) is another value.
C2_Witness ==
    /\ SolveDone
    /\ ret.ok
    /\ args.h_o # None
    /\ ~OutsideMissing
    /\ solve_outside(self, args).v.h_o # args.h_o
    /\ IsFinite(ret.v.outside_side_thermal.Re)

\* The relative rounding error of one float operation: half a unit in the
\* last place.
RoundingUnit == Dec(5, 4)

\* Q = C * (T_from - T_to) to within rounding: Q / C and the product are
\* rounded relative to Q, the temperature it is taken from or added to
\* relative to the temperature.
EnergyBalanced(Q, C, T_from, T_to) ==
    FLe(FAbs(FSub(Q, FMul(C, FSub(T_from, T_to)))),
        FMul(RoundingUnit,
             FAdd(FMul(I(4), FAbs(Q)),
                  FMul(I(2), FMul(C, FMax(FAbs(T_from), FAbs(T_to)))))))

DutyDone == op \in {"heat_duty_from_effectiveness", "solve"} /\ pc = "done"

BothFinite ==
    /\ capacity_rate(args.hot_stream).ok
    /\ capacity_rate(args.cold_stream).ok
    /\ IsFinite(capacity_rate(args.hot_stream).v)
    /\ IsFinite(capacity_rate(args.cold_stream).v)

\* C3: every result of heat_duty_from_effectiveness, and of solve, on two
\* streams of finite capacity rate satisfies Q = C_hot * (T_hot_in - T_hot_out)
\* and Q = C_cold * (T_cold_out - T_cold_in), as equalities of floats, that is
\* to within rounding.
C3_EnergyBalance ==
    (DutyDone /\ ret.ok /\ BothFinite)
        => /\ EnergyBalanced(ret.v.Q, capacity_rate(args.hot_stream).v,
                             inlet_temperature(args.hot_stream), ret.v.T_hot_out)
           /\ EnergyBalanced(ret.v.Q, capacity_rate(args.cold_stream).v,
                             ret.v.T_cold_out, inlet_temperature(args.cold_stream))

\* A solve result with a non-zero duty between streams of different finite
\* capacity rates.
C3_Witness ==
    /\ SolveDone
    /\ ret.ok
    /\ BothFinite
    /\ capacity_rate(args.hot_stream).v # capacity_rate(args.cold_stream).v
    /\ Positive(ret.v.Q)
    /\ FLt(ret.v.T_hot_out, inlet_temperature(args.hot_stream))

Decomposed(h, turns) ==
    /\ h.dp_total = FAdd(FAdd(FAdd(h.dp_tubes, h.dp_inlet), h.dp_outlet), h.dp_turns)
    /\ NonNegative(h.dp_tubes)
    /\ NonNegative(h.dp_inlet)
    /\ NonNegative(h.dp_outlet)
    /\ NonNegative(h.dp_turns)
    /\ turns = 0 => h.dp_turns = Zero

\* C4: in every result of pressure_drop_internal_total, and in the
\* tube_side_hydraulic part of every solve result, dp_total is the float sum
\* dp_tubes + dp_inlet + dp_outlet + dp_turns, no component is negative, and
\* dp_turns is 0 when there are no turns.
C4_PressureDropDecomposition ==
    /\ (op = "pressure_drop_internal_total" /\ pc = "done" /\ ret.ok)
           => Decomposed(ret.v, args.n_turns)
    /\ (SolveDone /\ ret.ok)
           => Decomposed(ret.v.tube_side_hydraulic, n_turns(self.bundle))

\* A solve on a multi-pass bundle: the turns contribute a positive loss.
C4_Witness ==
    /\ SolveDone
    /\ ret.ok
    /\ n_turns(self.bundle) > 0
    /\ Positive(ret.v.tube_side_hydraulic.dp_turns)
    /\ Positive(ret.v.tube_side_hydraulic.dp_inlet)

BundleDone == op = "TubeBundle" /\ pc = "done"

\* C5: TubeBundle raises whenever n_rows * n_tubes_per_row is not a multiple of
\* n_passes_tube and whenever a count or a pitch is not strictly positive; a
\* bundle that is constructed has n_tubes_per_pass * n_passes_tube =
\* n_tubes_total and n_tubes_per_pass >= 1.
C5_BundlePartition ==
    BundleDone
        => /\ (\/ args.n_rows <= 0
               \/ args.n_tubes_per_row <= 0
               \/ args.n_passes_tube <= 0
               \/ FLe(args.pitch_transverse, Zero)
               \/ FLe(args.pitch_longitudinal, Zero)
               \/ (args.n_rows * args.n_tubes_per_row) % args.n_passes_tube # 0)
                  => (~ret.ok /\ ret.exc = "ValueError")
           /\ ret.ok =>
                /\ n_tubes_per_pass(ret.v) * ret.v.n_passes_tube = n_tubes_total(ret.v)
                /\ n_tubes_per_pass(ret.v) >= 1

\* 4 rows of 5 tubes in 3 passes, every count and pitch positive: rejected.
C5_Witness ==
    /\ BundleDone
    /\ args.n_rows = 4
    /\ args.n_tubes_per_row = 5
    /\ args.n_passes_tube = 3
    /\ Positive(args.pitch_transverse)
    /\ Positive(args.pitch_longitudinal)
    /\ Lower(args.layout) = "inline"
    /\ args.flow_arrangement = "crossflow"
    /\ ~ret.ok


Arrangements == {"counterflow", "cocurrentflow", "crossflow"}

EffectivenessDone == op = "effectiveness_ntu" /\ pc = "done"

InUnitInterval(eps) == FLe(Zero, eps) /\ FLe(eps, One)

\* C6: effectiveness_ntu returns a value in [0, 1] for every pair of positive
\* capacity rates, every positive UA and each of the three arrangements; and
\* no solve on two streams of finite capacity rate is rejected by the range
\* test of heat_duty_from_effectiveness.
C6_EffectivenessInUnitInterval ==
    /\ (/\ EffectivenessDone
        /\ Positive(args.C_hot)
        /\ Positive(args.C_cold)
        /\ Positive(args.UA)
        /\ args.flow_arrangement \in Arrangements)
           => (ret.ok /\ InUnitInterval(ret.v))
    /\ (SolveDone /\ BothFinite)
           => ~(~ret.ok /\ ret.msg = "eps must be between 0 and 1.")

\* Both capacity rates infinite: the effectiveness returned is nan.
C6_NanForInfiniteRates ==
    /\ EffectivenessDone
    /\ args.C_hot = Inf
    /\ args.C_cold = Inf
    /\ Positive(args.UA)
    /\ args.flow_arrangement \in Arrangements
    /\ ret.ok
    /\ IsNaN(ret.v)

\* The same bound where both capacity rates are finite.
C6_FiniteRatesInUnitInterval ==
    /\ (/\ EffectivenessDone
        /\ Positive(args.C_hot)
        /\ Positive(args.C_cold)
        /\ IsFinite(args.C_hot)
        /\ IsFinite(args.C_cold)
        /\ Positive(args.UA)
        /\ args.flow_arrangement \in Arrangements)
           => (ret.ok /\ InUnitInterval(ret.v))
    /\ (SolveDone /\ BothFinite)
           => ~(~ret.ok /\ ret.msg = "eps must be between 0 and 1.")

\* C7: the outlet temperatures heat_duty_from_effectiveness and solve return
\* are those of the streams' own outlet_temperature: T_hot_out for a loss of
\* Q by the hot stream, T_cold_out for a gain of Q by the cold stream, for
\* streams of every class.
C7_OutletsFromStreams ==
    (DutyDone /\ ret.ok)
        => /\ ret.v.T_hot_out = outlet_temperature(args.hot_stream, ret.v.Q)
           /\ ret.v.T_cold_out = outlet_temperature(args.cold_stream, FNeg(ret.v.Q))

\* A moist-air hot stream losing Q > 0: the temperature returned is below the
\* inlet temperature, which is what the stream's outlet_temperature gives.
C7_MoistAirOutletDiffers ==
    /\ op = "heat_duty_from_effectiveness"
    /\ pc = "done"
    /\ args.hot_stream.cls = "MoistAirStream"
    /\ args.cold_stream.cls = "SensibleHeatStream"
    /\ ret.ok
    /\ Positive(ret.v.Q)
    /\ outlet_temperature(args.hot_stream, ret.v.Q) = inlet_temperature(args.hot_stream)
    /\ FLt(ret.v.T_hot_out, inlet_temperature(args.hot_stream))

\* The same equalities where both streams are sensible.
C7_SensibleOutletsFromStreams ==
    (/\ DutyDone
     /\ ret.ok
     /\ args.hot_stream.cls = "SensibleHeatStream"
     /\ args.cold_stream.cls = "SensibleHeatStream")
        => /\ ret.v.T_hot_out = outlet_temperature(args.hot_stream, ret.v.Q)
           /\ ret.v.T_cold_out = outlet_temperature(args.cold_stream, FNeg(ret.v.Q))

NotPositive(x) == FLe(x, Zero)

SomeNotPositive(p, names) == \E f \in names : NotPositive(p[f])

InvalidInput(r) == ~r.ok /\ r.exc = "ValueError"

\* C8: heat_transfer_coefficient_internal, pressure_drop_internal_total,
\* outside_flow_from_mass_flow and solve raise ValueError whenever a mass
\* flow, a diameter, a flow or frontal area, a density, a viscosity, a
\* conductivity or a specific heat they are given is <= 0.
C8_NonPositiveIsValueError ==
    /\ (/\ op = "heat_transfer_coefficient_internal"
        /\ pc = "done"
        /\ \/ NotPositive(args.m_dot)
           \/ NotPositive(args.tube_inner_diameter)
           \/ NotPositive(args.flow_area)
           \/ SomeNotPositive(args.props, {"rho", "mu", "k", "cp"}))
           => InvalidInput(ret)
    /\ (/\ op = "pressure_drop_internal_total"
        /\ pc = "done"
        /\ \/ NotPositive(args.m_dot)
           \/ NotPositive(args.hydraulic_diameter)
           \/ NotPositive(args.flow_area)
           \/ SomeNotPositive(args.props, {"rho", "mu"}))
           => InvalidInput(ret)
    /\ (/\ op = "outside_flow_from_mass_flow"
        /\ pc = "done"
        /\ \/ NotPositive(args.m_dot)
           \/ NotPositive(args.tube_outer_diameter)
           \/ NotPositive(args.frontal_area)
           \/ SomeNotPositive(args.props, {"rho", "mu", "k", "cp"}))
           => InvalidInput(ret)
    /\ (/\ SolveDone
        /\ \/ NotPositive(args.m_dot_tube_side)
           \/ SomeNotPositive(args.tube_side_props, {"rho", "mu", "k", "cp"})
           \/ /\ ~OutsideMissing
              /\ \/ NotPositive(args.m_dot_outside)
                 \/ SomeNotPositive(args.outside_props, {"rho", "mu", "k", "cp"}))
           => InvalidInput(ret)

\* An outside density of exactly 0 with every other argument positive: the
\* division by rho * frontal_area raises ZeroDivisionError.
C8_ZeroDensityDivides ==
    /\ op = "outside_flow_from_mass_flow"
    /\ pc = "done"
    /\ args.props.rho = Zero
    /\ Positive(args.m_dot)
    /\ Positive(args.frontal_area)
    /\ Positive(args.tube_outer_diameter)
    /\ Positive(args.zeta_dp)
    /\ ~ret.ok
    /\ ret.exc = "ZeroDivisionError"

\* The same failure everywhere but at a zero outside density.
C8_ExceptZeroOutsideDensity ==
    \/ op = "outside_flow_from_mass_flow" /\ args.props.rho = Zero
    \/ op = "solve" /\ args.outside_props.rho = Zero
    \/ C8_NonPositiveIsValueError

Unsupported(r) ==
    ~r.ok /\ r.exc = "ValueError" /\ r.msg = "Unsupported flow_arrangement"

\* solve succeeds on the same arguments with the bundle's own arrangement.
OtherwiseValid == solve(self, [args EXCEPT !.flow_arrangement = NoneStr]).ok

\* C9 as stated: effectiveness_ntu raises for every name other than
\* counterflow, cocurrentflow and crossflow, and so does solve given such a
\* name and otherwise valid inputs.
C9_OtherNamesFail ==
    /\ (EffectivenessDone /\ args.flow_arrangement \notin Arrangements)
           => ~ret.ok
    /\ (SolveDone /\ args.flow_arrangement \notin Arrangements \cup {NoneStr}
          /\ OtherwiseValid)
           => ~ret.ok

\* C9: effectiveness_ntu, given positive capacity rates and a positive UA,
\* raises the unsupported-arrangement ValueError for every name that is none
\* of counterflow, cocurrentflow and crossflow once put in lower case, and
\* returns a value for every other name; solve, given such a name explicitly
\* and inputs on which it succeeds with the bundle's own arrangement, raises
\* the same error.
C9_UnsupportedArrangementFails ==
    /\ (/\ EffectivenessDone
        /\ Positive(args.C_hot)
        /\ Positive(args.C_cold)
        /\ Positive(args.UA))
           => (Unsupported(ret) <=> Lower(args.flow_arrangement) \notin Arrangements)
    /\ (/\ SolveDone
        /\ args.flow_arrangement # NoneStr
        /\ Lower(args.flow_arrangement) \notin Arrangements
        /\ OtherwiseValid)
           => Unsupported(ret)

\* A solve on a bundle whose own arrangement is supported, given "parallel".
C9_Witness ==
    /\ SolveDone
    /\ args.flow_arrangement = "parallel"
    /\ Lower(self.bundle.flow_arrangement) \in Arrangements
    /\ OtherwiseValid
    /\ Unsupported(ret)

\* C10: for positive capacity rates and a positive UA, effectiveness_ntu
\* returns for "crossflow" what it returns for "cocurrentflow": the same
\* float, or nan in both cases.
C10_CrossflowIsCocurrent ==
    (/\ EffectivenessDone
     /\ args.flow_arrangement = "crossflow"
     /\ Positive(args.C_hot)
     /\ Positive(args.C_cold)
     /\ Positive(args.UA))
        => /\ ret.ok
           /\ ret = effectiveness_ntu(args.C_hot, args.C_cold, args.UA, "cocurrentflow")

\* A crossflow effectiveness strictly between 0 and 1 for unequal finite
\* capacity rates.
C10_Witness ==
    /\ EffectivenessDone
    /\ args.flow_arrangement = "crossflow"
    /\ IsFinite(args.C_hot)
    /\ IsFinite(args.C_cold)
    /\ args.C_hot # args.C_cold
    /\ ret.ok
    /\ FLt(Zero, ret.v)
    /\ FLt(ret.v, One)



CallDone(o) == op = o /\ pc = "done"

\* 1 / (0.79 ln(Re) - 1.64)^2
PetukhovForm(Re) == FDiv(One, FSquare(FSub(FMul(Dec(79, 2), MathLog(Re)), Dec(164, 2))))

\* C11: friction_factor_smooth raises ValueError for Re <= 0, returns 64 / Re
\* for 0 < Re < 2300 and the Petukhov form for Re >= 2300, Re = 2300 included;
\* the function of the internal-flow module and that of the pressure-drop
\* module return the same for every Re.
C11_FrictionRegimes ==
    CallDone("friction_factor_smooth")
        => /\ FLe(args.Re, Zero) => (~ret.ok /\ ret.exc = "ValueError")
           /\ (Positive(args.Re) /\ FLt(args.Re, I(2300)))
                  => ret = Ok(FDiv(I(64), args.Re))
           /\ FGe(args.Re, I(2300)) => ret = Ok(PetukhovForm(args.Re))
           /\ internal_flow_friction_factor_smooth(args.Re)
                  = internal_pressure_drop_friction_factor_smooth(args.Re)

\* Re = 2300 exactly: the value is the Petukhov one, not 64 / 2300.
C11_Witness ==
    /\ CallDone("friction_factor_smooth")
    /\ args.Re = I(2300)
    /\ ret.ok
    /\ ret.v = PetukhovForm(I(2300))
    /\ ret.v # FDiv(I(64), I(2300))

\* (1 - w) * 3.66 + w * Nu_turb with w = (Re - 2300) / (4000 - 2300)
Blend(Re, Nu_turb) ==
    FAdd(FMul(FSub(One, FDiv(FSub(Re, I(2300)), FSub(I(4000), I(2300)))), Dec(366, 2)),
         FMul(FDiv(FSub(Re, I(2300)), FSub(I(4000), I(2300))), Nu_turb))

\* C12: nusselt_internal returns 3.66 for Re < 2300, what nusselt_gnielinski
\* returns at Re for Re > 4000, and for 2300 <= Re <= 4000 the blend of 3.66
\* and the Gnielinski value at 4000, linear in Re; the blend is 3.66 at
\* Re = 2300 and the Gnielinski value at 4000 at Re = 4000.
C12_NusseltRegimes ==
    CallDone("nusselt_internal")
        => /\ FLt(args.Re, I(2300)) => ret = Ok(Dec(366, 2))
           /\ FGt(args.Re, I(4000)) => ret = nusselt_gnielinski(args.Re, args.Pr)
           /\ (FGe(args.Re, I(2300)) /\ FLe(args.Re, I(4000)) /\ Positive(args.Pr))
                  => /\ nusselt_gnielinski(I(4000), args.Pr).ok
                     /\ ret = Ok(Blend(args.Re, nusselt_gnielinski(I(4000), args.Pr).v))
           /\ (FGe(args.Re, I(2300)) /\ FLe(args.Re, I(4000)) /\ ~Positive(args.Pr))
                  => ret = nusselt_gnielinski(I(4000), args.Pr)
           /\ (args.Re = I(2300) /\ Positive(args.Pr)) => ret = Ok(Dec(366, 2))
           /\ args.Re = I(4000) => ret = nusselt_gnielinski(I(4000), args.Pr)

\* Half way through the transition: the value lies strictly between 3.66 and
\* the Gnielinski value at 4000, and is not the Gnielinski value at Re.
C12_Witness ==
    /\ CallDone("nusselt_internal")
    /\ args.Re = I(3150)
    /\ Positive(args.Pr)
    /\ ret.ok
    /\ FLt(Dec(366, 2), ret.v)
    /\ FLt(ret.v, nusselt_gnielinski(I(4000), args.Pr).v)
    /\ ret # nusselt_gnielinski(args.Re, args.Pr)

Band(Re) ==
    IF FLt(Re, I(100)) THEN 1
    ELSE IF FLt(Re, I(1000)) THEN 2
    ELSE IF FLt(Re, Fin(2, 5)) THEN 3
    ELSE 4

BandC(b) == <<Dec(90, 2), Dec(52, 2), Dec(27, 2), Dec(21, 3)>>[b]

BandM(b) == <<Dec(40, 2), Dec(50, 2), Dec(63, 2), Dec(84, 2)>>[b]

\* C * Re^m * Pr^0.36 for the pair (C, m) of band b.
ZukauskasForm(b, Re, Pr) == FMul(FMul(BandC(b), FPow(Re, BandM(b))), FPow(Pr, Dec(36, 2)))

RowCorrection(n) == FPow(FDiv(I(n), I(20)), Dec(20, 2))

\* C13: for positive Re, Pr and n_rows, nusselt_zukauskas returns
\* C * Re^m * Pr^0.36 with (C, m) = (0.90, 0.40) for Re < 100, (0.52, 0.50)
\* for 100 <= Re < 1000, (0.27, 0.63) for 1000 <= Re < 2e5 and (0.021, 0.84)
\* for Re >= 2e5, times (n_rows / 20)^0.20 when n_rows < 20 and with no
\* factor when n_rows >= 20.
C13_ZukauskasBands ==
    (/\ CallDone("nusselt_zukauskas")
     /\ Positive(args.Re)
     /\ Positive(args.Pr)
     /\ args.n_rows > 0)
        => /\ args.n_rows < 20
                  => ret = Ok(FMul(ZukauskasForm(Band(args.Re), args.Re, args.Pr),
                                   RowCorrection(args.n_rows)))
           /\ args.n_rows >= 20
                  => ret = Ok(ZukauskasForm(Band(args.Re), args.Re, args.Pr))

\* Re = 100 exactly, which takes the pair of the second band, with fewer
\* than 20 rows: the value is below the uncorrected one.
C13_Witness ==
    /\ CallDone("nusselt_zukauskas")
    /\ args.Re = I(100)
    /\ Positive(args.Pr)
    /\ args.n_rows = 4
    /\ ret.ok
    /\ FLt(ret.v, ZukauskasForm(2, args.Re, args.Pr))
    /\ ZukauskasForm(2, args.Re, args.Pr) # ZukauskasForm(1, args.Re, args.Pr)


HeatDutyDone == CallDone("heat_duty_from_effectiveness")

EpsInRange == FLe(Zero, args.eps) /\ FLe(args.eps, One)

\* capacity_rate() of the stream returns a value, and the value is not 0.
RateUsable(s) == capacity_rate(s).ok /\ capacity_rate(s).v # Zero

\* C14: heat_duty_from_effectiveness raises the eps ValueError for every eps
\* outside [0, 1], whatever the streams are, before any capacity rate is
\* read; for every eps in [0, 1] and two streams whose capacity rates are
\* available and non-zero it returns
\* Q = eps * (min(C_hot, C_cold) * (T_hot_in - T_cold_in)).
C14_DutyFromEffectiveness ==
    HeatDutyDone
        => /\ ~EpsInRange
                  => ret = Raise("ValueError", "eps must be between 0 and 1.")
           /\ (EpsInRange /\ RateUsable(args.hot_stream) /\ RateUsable(args.cold_stream))
                  => /\ ret.ok
                     /\ ret.v.Q = FMul(args.eps,
                                       FMul(FMin(capacity_rate(args.hot_stream).v,
                                                 capacity_rate(args.cold_stream).v),
                                            FSub(inlet_temperature(args.hot_stream),
                                                 inlet_temperature(args.cold_stream))))

\* eps = 0.25 between two sensible streams: a positive duty, a quarter of
\* C_min * dT = 1005 * 50.
C14_Witness ==
    /\ HeatDutyDone
    /\ args.eps = Dec(25, 2)
    /\ args.hot_stream = SensibleHeatStream(I(2090), I(350)).v
    /\ args.cold_stream = SensibleHeatStream(I(1005), I(300)).v
    /\ ret.ok
    /\ ret.v.Q = FMul(Dec(25, 2), FMul(I(1005), I(50)))
    /\ Positive(ret.v.Q)

\* eps = 1.1 on a stream whose capacity rate is not set: the eps error, not
\* the stream's.
C14_RejectedBeforeRates ==
    /\ HeatDutyDone
    /\ args.eps = Dec(11, 1)
    /\ ~capacity_rate(args.hot_stream).ok
    /\ ret = Raise("ValueError", "eps must be between 0 and 1.")

Condensing(s) == s.cls = "CondensingSteamStream"

FiniteRate(s) == capacity_rate(s).ok /\ IsFinite(capacity_rate(s).v)

\* The effectiveness of the duty: the argument of
\* heat_duty_from_effectiveness, the eps of a solve result.
EpsUsed == IF op = "solve" THEN ret.v.eps ELSE args.eps

\* C15: a condensing stream has capacity rate +inf and outlet_temperature
\* equal to its inlet (saturation) temperature for the duty of the call, of
\* either sign; in every result of heat_duty_from_effectiveness or solve
\* with a condensing stream on one side and a finite-capacity stream on the
\* other, the outlet temperature of the condensing side is its saturation
\* temperature, and the duty is eps * (C * (T_hot_in - T_cold_in)) with C
\* the finite stream's capacity rate.
C15_CondensingIsothermal ==
    DutyDone
        => /\ \A s \in {args.hot_stream, args.cold_stream} :
                  Condensing(s)
                      => /\ capacity_rate(s) = Ok(Inf)
                         /\ ret.ok => /\ outlet_temperature(s, ret.v.Q) = s.T_sat
                                      /\ outlet_temperature(s, FNeg(ret.v.Q)) = s.T_sat
                         /\ inlet_temperature(s) = s.T_sat
           /\ (ret.ok /\ Condensing(args.hot_stream) /\ FiniteRate(args.cold_stream))
                  => /\ ret.v.T_hot_out = args.hot_stream.T_sat
                     /\ ret.v.Q = FMul(EpsUsed,
                                       FMul(capacity_rate(args.cold_stream).v,
                                            FSub(args.hot_stream.T_sat,
                                                 inlet_temperature(args.cold_stream))))
           /\ (ret.ok /\ Condensing(args.cold_stream) /\ FiniteRate(args.hot_stream))
                  => /\ ret.v.T_cold_out = args.cold_stream.T_sat
                     /\ ret.v.Q = FMul(EpsUsed,
                                       FMul(capacity_rate(args.hot_stream).v,
                                            FSub(inlet_temperature(args.hot_stream),
                                                 args.cold_stream.T_sat)))

\* A solve with steam condensing at 373 K on the hot side and a sensible cold
\* stream: heat is transferred, the cold stream warms up, the steam leaves at
\* 373 K.
C15_Witness ==
    /\ SolveDone
    /\ ret.ok
    /\ args.hot_stream = CondensingSteamStream(I(373)).v
    /\ args.cold_stream.cls = "SensibleHeatStream"
    /\ Positive(ret.v.Q)
    /\ ret.v.T_hot_out = I(373)
    /\ FGt(ret.v.T_cold_out, inlet_temperature(args.cold_stream))

NotConfigured(r) ==
    r = Raise("RuntimeError", "Effective heat capacity rate not set for MoistAirStream.")

Unconfigured(s) == s.cls = "MoistAirStream" /\ s.C_eff = None

\* A sensible stream standing in for s, at the same inlet temperature.
Configured(s) == [cls |-> "SensibleHeatStream", C |-> I(1005), T_in |-> inlet_temperature(s)]

ConfiguredArgs ==
    [args EXCEPT !.hot_stream = IF Unconfigured(@) THEN Configured(@) ELSE @,
                 !.cold_stream = IF Unconfigured(@) THEN Configured(@) ELSE @]

\* C16: capacity_rate() of a moist-air stream whose C_eff is None raises the
\* not-configured RuntimeError; every solve and every
\* heat_duty_from_effectiveness call with such a stream on either side
\* fails, and it fails with that error whenever eps is in [0, 1]
\* (heat_duty_from_effectiveness) or the same solve on configured streams
\* gets as far as the effectiveness.
C16_UnconfiguredMoistAirFails ==
    (DutyDone /\ (Unconfigured(args.hot_stream) \/ Unconfigured(args.cold_stream)))
        => /\ \A s \in {args.hot_stream, args.cold_stream} :
                  Unconfigured(s) => NotConfigured(capacity_rate(s))
           /\ ~ret.ok
           /\ (op = "heat_duty_from_effectiveness" /\ EpsInRange) => NotConfigured(ret)
           /\ (op = "solve" /\ solve(self, ConfiguredArgs).ok) => NotConfigured(ret)

\* A solve that succeeds on configured streams and fails with the
\* not-configured error when the cold side is an unconfigured moist-air
\* stream.
C16_Witness ==
    /\ SolveDone
    /\ Unconfigured(args.cold_stream)
    /\ ~Unconfigured(args.hot_stream)
    /\ solve(self, ConfiguredArgs).ok
    /\ NotConfigured(ret)


SessionDone == op = "solve" /\ pc = "done"

\* What the call returns when it is the first one made on a new exchanger of
\* the same bundle and wall conductivity.
FirstCallResult == solve(BareTubeHeatExchanger(self.bundle, self.wall_k), args)

C17_WitnessRaises ==
    /\ SessionDone
    /\ history = <<"returned", "returned">>
    /\ ~ret.ok
    /\ Unconfigured(args.hot_stream)


\* A diagnostic holds a number: neither None nor nan.
Defined(x) == x # None /\ ~IsNaN(x)

\* The tube-side and outside-side blocks of the solve, as solve calls them.
TubeThermalOf ==
    heat_transfer_coefficient_internal(
        args.m_dot_tube_side, internal_hydraulic_diameter(self.bundle),
        internal_flow_area_per_pass(self.bundle), args.tube_side_props)

TubeHydraulicOf ==
    pressure_drop_internal_total(
        args.m_dot_tube_side, internal_flow_area_per_pass(self.bundle),
        internal_hydraulic_diameter(self.bundle), internal_length_total(self.bundle),
        [rho |-> args.tube_side_props.rho, mu |-> args.tube_side_props.mu],
        n_turns(self.bundle), args.K_inlet, args.K_outlet, args.K_turn)

OutsideOf ==
    outside_flow_from_mass_flow(
        args.m_dot_outside, frontal_flow_area(self.bundle), self.bundle.tube.D_o,
        self.bundle.n_rows, args.outside_props, args.zeta_dp_outside)

\* The tube side of the result r holds the values of the two tube-side blocks.
TubeSideRetained(r) ==
    /\ r.tube_side_thermal = TubeThermalOf.v
    /\ r.tube_side_hydraulic = TubeHydraulicOf.v
    /\ \A f \in {"v", "Re", "Pr", "h"} : Defined(r.tube_side_thermal[f])
    /\ \A f \in {"dp_total", "dp_tubes", "dp_inlet", "dp_outlet", "dp_turns", "Re", "f", "v"} :
           Defined(r.tube_side_hydraulic[f])

OutsideDefined(r) ==
    /\ \A f \in {"v", "Re", "Pr", "h"} : Defined(r.outside_side_thermal[f])
    /\ \A f \in {"dp_total", "Re", "v"} : Defined(r.outside_side_hydraulic[f])

\* The outside side of r holds the values of the outside-side block, and the
\* coefficient used (the override if given, else the computed one).
OutsideSideRetained(r) ==
    /\ r.outside_side_thermal
           = [v |-> OutsideOf.v.v, Re |-> OutsideOf.v.Re, Pr |-> OutsideOf.v.Pr,
              h |-> IF args.h_o # None THEN args.h_o ELSE OutsideOf.v.h_o]
    /\ r.outside_side_hydraulic
           = [dp_total |-> OutsideOf.v.dp_o, Re |-> OutsideOf.v.Re, v |-> OutsideOf.v.v]

\* C18: in every result of a successful solve, with the coefficient computed
\* or given as h_o, the tube-side and outside-side velocity, Reynolds number,
\* Prandtl number, coefficient and pressure drop are all defined, and those
\* of the tube side hold the values of the tube-side blocks.
C18_DiagnosticsRetained ==
    (SolveDone /\ ret.ok) => (TubeSideRetained(ret.v) /\ OutsideDefined(ret.v))

\* A successful solve with h_o given and no outside flow: the outside-side
\* velocity, Reynolds number, Prandtl number and pressure drop of the result
\* are nan; only the coefficient, the override, is a number.
C18_OverrideLeavesOutsideUndefined ==
    /\ SolveDone
    /\ ret.ok
    /\ args.h_o # None
    /\ OutsideMissing
    /\ IsNaN(ret.v.outside_side_thermal.v)
    /\ IsNaN(ret.v.outside_side_thermal.Re)
    /\ IsNaN(ret.v.outside_side_thermal.Pr)
    /\ IsNaN(ret.v.outside_side_hydraulic.dp_total)
    /\ ret.v.outside_side_thermal.h = args.h_o
    /\ TubeSideRetained(ret.v)

\* Where the outside mass flow and properties are both given, with or
\* without h_o, every diagnostic of both sides is defined and holds the value
\* computed in the call.
C18_RetainedWithOutsideFlow ==
    (SolveDone /\ ret.ok /\ ~OutsideMissing)
        => /\ TubeSideRetained(ret.v)
           /\ OutsideDefined(ret.v)
           /\ OutsideSideRetained(ret.v)


\* effectiveness_ntu on the capacity rates of the call's streams and UA.
EpsWith(UA, arrangement) ==
    effectiveness_ntu(capacity_rate(args.hot_stream).v, capacity_rate(args.cold_stream).v,
                      UA, arrangement)

\* C19: the eps of every solve result is the effectiveness for the
\* flow_arrangement argument when one is passed, whatever the bundle's own
\* is, and for the bundle's flow_arrangement when the argument is None.
C19_ArrangementResolution ==
    (SolveDone /\ ret.ok)
        => /\ args.flow_arrangement # NoneStr
                  => Ok(ret.v.eps) = EpsWith(ret.v.UA, args.flow_arrangement)
           /\ args.flow_arrangement = NoneStr
                  => Ok(ret.v.eps) = EpsWith(ret.v.UA, self.bundle.flow_arrangement)

\* counterflow passed to a solve on a crossflow bundle: eps is the
\* counterflow value, which differs from the bundle's own.
C19_Witness ==
    /\ SolveDone
    /\ ret.ok
    /\ args.flow_arrangement = "counterflow"
    /\ self.bundle.flow_arrangement = "crossflow"
    /\ Ok(ret.v.eps) = EpsWith(ret.v.UA, "counterflow")
    /\ Ok(ret.v.eps) # EpsWith(ret.v.UA, "crossflow")

\* No argument passed on a bundle declared "CounterFlow": eps is the counterflow
\* value, which differs from the cocurrent one.
C19_WitnessDefault ==
    /\ SolveDone
    /\ ret.ok
    /\ args.flow_arrangement = NoneStr
    /\ self.bundle.flow_arrangement = "CounterFlow"
    /\ Ok(ret.v.eps) = EpsWith(ret.v.UA, "counterflow")
    /\ Ok(ret.v.eps) # EpsWith(ret.v.UA, "cocurrentflow")


\* The same exchanger with no wall conductivity configured.
NoWall == BareTubeHeatExchanger(self.bundle, None)

\* 1 / (1 / (h_i * A_i) + 1 / (h_o * A_o)) on the values of the result r.
FilmConductance(r) ==
    FDiv(One, FAdd(FDiv(One, FMul(r.tube_side_thermal.h, r.A_i)),
                   FDiv(One, FMul(r.outside_side_thermal.h, r.A_o))))

C20_WitnessNonPositive ==
    /\ SolveDone
    /\ self.wall_k = Zero
    /\ solve(NoWall, args).ok
    /\ ret = Raise("ValueError", "wall_k must be positive.")


\* C_min, C_r and NTU of the call, as effectiveness_ntu derives them.
CMinOf == FMin(args.C_hot, args.C_cold)

CrOf == FDiv(CMinOf, FMax(args.C_hot, args.C_cold))

NtuOf == FDiv(args.UA, CMinOf)

\* NTU / (1 + NTU)
LimitingForm(NTU) == FDiv(NTU, FAdd(One, NTU))

\* (1 - e) / (1 - C_r * e) with e = exp(-NTU * (1 - C_r))
GeneralForm(NTU, C_r, e) == FDiv(FSub(One, e), FSub(One, FMul(C_r, e)))

GeneralFormAt(NTU, C_r) == GeneralForm(NTU, C_r, MathExp(FMul(FNeg(NTU), FSub(One, C_r))))

NearUnity(C_r) == FLt(FAbs(FSub(One, C_r)), Dec(1, 9))

CounterflowCall ==
    /\ CallDone("effectiveness_ntu")
    /\ Lower(args.flow_arrangement) = "counterflow"
    /\ Positive(args.C_hot)
    /\ Positive(args.C_cold)
    /\ Positive(args.UA)

\* C21: a counterflow call of effectiveness_ntu on positive capacity rates
\* and UA returns NTU / (1 + NTU) when |1 - C_r| < 1e-9 and the general
\* closed form at (NTU, C_r) otherwise, with C_r = min / max of the two rates
\* and NTU = UA / min; C_hot = 1000, C_cold = 1500, UA = 2000 gives
\* C_min = 1000, C_r = 2/3 (rounded), NTU = 2 and the general form.
C21_CounterflowBranch ==
    CounterflowCall
        => /\ NearUnity(CrOf) => ret = Ok(LimitingForm(NtuOf))
           /\ ~NearUnity(CrOf) => ret = Ok(GeneralFormAt(NtuOf, CrOf))
           /\ CrOf = One => NearUnity(CrOf)
           /\ (args.C_hot = I(1000) /\ args.C_cold = I(1500) /\ args.UA = I(2000))
                  => /\ CMinOf = I(1000)
                     /\ CrOf = Dec(6667, 4)
                     /\ NtuOf = I(2)
                     /\ ret = Ok(GeneralFormAt(I(2), Dec(6667, 4)))

\* Equal capacity rates: C_r is 1 and the value is NTU / (1 + NTU) = 2/3.
C21_Witness ==
    /\ CounterflowCall
    /\ args.C_hot = I(1000)
    /\ args.C_cold = I(1000)
    /\ args.UA = I(2000)
    /\ CrOf = One
    /\ ret = Ok(Dec(6667, 4))

\* Capacity rates 1000 and 999.9: C_r = 0.9999 is not within 1e-9 of 1, and
\* the value is that of the general form, not NTU / (1 + NTU).
C21_WitnessGeneral ==
    /\ CounterflowCall
    /\ args.C_hot = I(1000)
    /\ args.C_cold = Dec(9999, 1)
    /\ CrOf = Dec(9999, 4)
    /\ ret = Ok(GeneralFormAt(NtuOf, CrOf))
    /\ ret # Ok(LimitingForm(NtuOf))


\* The per-pass flow area, the hydraulic length and the turn count of a
\* bundle, in terms of its fields.
PassArea(b) == FMul(I((b.n_rows * b.n_tubes_per_row) \div b.n_passes_tube), flow_area(b.tube))

PassLength(b) == FMul(I(b.n_passes_tube), b.tube.length_total)

PassTurns(b) == b.n_passes_tube - 1

HydraulicInputsValid(b) ==
    /\ Positive(PassArea(b))
    /\ Positive(PassLength(b))
    /\ PassTurns(b) \in Nat
    /\ b.n_passes_tube = 1 => PassTurns(b) = 0
    /\ internal_flow_area_per_pass(b) = PassArea(b)
    /\ internal_length_total(b) = PassLength(b)
    /\ n_turns(b) = PassTurns(b)

\* C22: every bundle that is constructed has a positive per-pass flow area
\* n_tubes_per_pass * tube.flow_area, a positive hydraulic length
\* n_passes_tube * tube.length_total and n_passes_tube - 1 >= 0 turns (0 for
\* one pass); the tube-side hydraulic results of every solve are those of
\* pressure_drop_internal_total on that area, length and turn count, and the
\* tube-side thermal results those of heat_transfer_coefficient_internal on
\* the same area, so both report the same velocity.
C22_PerPassHydraulicInputs ==
    /\ (BundleDone /\ ret.ok) => HydraulicInputsValid(ret.v)
    /\ SolveDone => HydraulicInputsValid(self.bundle)
    /\ (SolveDone /\ ret.ok)
           => /\ Ok(ret.v.tube_side_hydraulic)
                    = pressure_drop_internal_total(
                          args.m_dot_tube_side, PassArea(self.bundle),
                          self.bundle.tube.D_i, PassLength(self.bundle),
                          [rho |-> args.tube_side_props.rho, mu |-> args.tube_side_props.mu],
                          PassTurns(self.bundle), args.K_inlet, args.K_outlet, args.K_turn)
              /\ Ok(ret.v.tube_side_thermal)
                    = heat_transfer_coefficient_internal(
                          args.m_dot_tube_side, self.bundle.tube.D_i,
                          PassArea(self.bundle), args.tube_side_props)
              /\ ret.v.tube_side_hydraulic.v = ret.v.tube_side_thermal.v

\* A solve on 6 tubes in 3 passes: 2 tubes per pass, 2 turns, and a friction
\* loss over three tube lengths, above that over one.
C22_Witness ==
    /\ SolveDone
    /\ ret.ok
    /\ self.bundle.n_passes_tube = 3
    /\ n_tubes_per_pass(self.bundle) = 2
    /\ PassTurns(self.bundle) = 2
    /\ PassLength(self.bundle) = I(6)
    /\ Positive(ret.v.tube_side_hydraulic.dp_turns)
    /\ FGt(ret.v.tube_side_hydraulic.dp_tubes,
           pressure_drop_internal_total(
               args.m_dot_tube_side, PassArea(self.bundle), self.bundle.tube.D_i,
               self.bundle.tube.length_total,
               [rho |-> args.tube_side_props.rho, mu |-> args.tube_side_props.mu],
               PassTurns(self.bundle), args.K_inlet, args.K_outlet, args.K_turn).v.dp_tubes)

\* A solve on a single-pass bundle: no turn, no turn loss.
C22_WitnessSinglePass ==
    /\ SolveDone
    /\ ret.ok
    /\ self.bundle.n_passes_tube = 1
    /\ n_turns(self.bundle) = 0
    /\ ret.v.tube_side_hydraulic.dp_turns = Zero


\* The same call with the two capacity rates exchanged.
Swapped == effectiveness_ntu(args.C_cold, args.C_hot, args.UA, args.flow_arrangement)

\* C23: for positive C_hot, C_cold and UA and a supported arrangement,
\* effectiveness_ntu returns a value, and the call with C_hot and C_cold
\* exchanged returns the same value.
C23_SymmetricInRates ==
    (/\ EffectivenessDone
     /\ Positive(args.C_hot)
     /\ Positive(args.C_cold)
     /\ Positive(args.UA)
     /\ Lower(args.flow_arrangement) \in Arrangements)
        => /\ ret.ok
           /\ Swapped = ret

\* Counterflow with rates 1000 and 1500: an effectiveness strictly between 0
\* and 1, the same with the rates exchanged.
C23_Witness ==
    /\ EffectivenessDone
    /\ args.flow_arrangement = "counterflow"
    /\ args.C_hot = I(1000)
    /\ args.C_cold = I(1500)
    /\ args.UA = I(2000)
    /\ ret.ok
    /\ Positive(ret.v)
    /\ FLt(ret.v, One)
    /\ Swapped = ret


PositiveFiniteRates ==
    /\ BothFinite
    /\ Positive(capacity_rate(args.hot_stream).v)
    /\ Positive(capacity_rate(args.cold_stream).v)

HotIn == inlet_temperature(args.hot_stream)

ColdIn == inlet_temperature(args.cold_stream)

\* The rounding an outlet temperature carries: that of Q, of Q / C and of the
\* final sum.
OutletRounding ==
    FMul(RoundingUnit,
         FAdd(FMul(I(4), FAbs(FSub(HotIn, ColdIn))),
              FMul(I(2), FMax(FAbs(HotIn), FAbs(ColdIn)))))

\* lo <= x <= hi
Between(lo, x, hi) == FLe(lo, x) /\ FLe(x, hi)

\* C24: for eps in [0, 1], positive finite capacity rates and
\* T_hot_in >= T_cold_in, heat_duty_from_effectiveness returns
\* 0 <= Q <= C_min * (T_hot_in - T_cold_in) and outlet temperatures of both
\* streams between T_cold_in and T_hot_in, to within the rounding of the
\* outlet; with T_hot_in < T_cold_in it returns too, with Q < 0 for eps > 0.
C24_OutletsWithinInlets ==
    (HeatDutyDone /\ EpsInRange /\ PositiveFiniteRates)
        => /\ ret.ok
           /\ FGe(HotIn, ColdIn)
                  => /\ Between(Zero, ret.v.Q,
                                FMul(FMin(capacity_rate(args.hot_stream).v,
                                          capacity_rate(args.cold_stream).v),
                                     FSub(HotIn, ColdIn)))
                     /\ Between(FSub(ColdIn, OutletRounding), ret.v.T_hot_out, HotIn)
                     /\ Between(ColdIn, ret.v.T_cold_out, FAdd(HotIn, OutletRounding))
           /\ (FLt(HotIn, ColdIn) /\ Positive(args.eps)) => FLt(ret.v.Q, Zero)

\* The same bounds with no allowance for rounding.
C24_OutletsWithinInletsExactly ==
    (HeatDutyDone /\ EpsInRange /\ PositiveFiniteRates /\ FGe(HotIn, ColdIn))
        => /\ Between(ColdIn, ret.v.T_hot_out, HotIn)
           /\ Between(ColdIn, ret.v.T_cold_out, HotIn)

\* eps = 0.5 between a hot stream of rate 2090 at 350 and a cold one of rate
\* 1005 at 300: both outlets lie strictly between 300 and 350.
C24_Witness ==
    /\ HeatDutyDone
    /\ args.eps = Dec(5, 1)
    /\ args.hot_stream = SensibleHeatStream(I(2090), I(350)).v
    /\ args.cold_stream = SensibleHeatStream(I(1005), I(300)).v
    /\ ret.ok
    /\ Positive(ret.v.Q)
    /\ FLt(ColdIn, ret.v.T_hot_out)
    /\ FLt(ret.v.T_hot_out, HotIn)
    /\ FLt(ColdIn, ret.v.T_cold_out)
    /\ FLt(ret.v.T_cold_out, HotIn)

\* The hot stream enters colder than the cold one: a negative duty.
C24_WitnessReversed ==
    /\ HeatDutyDone
    /\ PositiveFiniteRates
    /\ Positive(args.eps)
    /\ FLt(HotIn, ColdIn)
    /\ ret.ok
    /\ FLt(ret.v.Q, Zero)

\* eps = 1 between two streams of equal rate: the hot outlet is the cold
\* inlet less one rounding.
C24_WitnessRounded ==
    /\ HeatDutyDone
    /\ args.eps = One
    /\ PositiveFiniteRates
    /\ FGe(HotIn, ColdIn)
    /\ ret.ok
    /\ FLt(ret.v.T_hot_out, ColdIn)
    /\ FGe(ret.v.T_hot_out, FSub(ColdIn, OutletRounding))


\* The arrangement name the call resolves to.
NameUsed ==
    IF args.flow_arrangement = NoneStr
    THEN self.bundle.flow_arrangement ELSE args.flow_arrangement

\* The coefficient used once the shell side is settled.
CoefficientUsed == IF args.h_o # None THEN args.h_o ELSE OutsideOf.v.h_o

\* The failure of the capacity rates: capacity_rate() of the hot stream, then
\* of the cold one, then the positivity test of effectiveness_ntu.
RatesFailure ==
    IF ~capacity_rate(args.hot_stream).ok THEN capacity_rate(args.hot_stream)
    ELSE IF ~capacity_rate(args.cold_stream).ok THEN capacity_rate(args.cold_stream)
    ELSE IF FLe(capacity_rate(args.hot_stream).v, Zero)
            \/ FLe(capacity_rate(args.cold_stream).v, Zero)
    THEN Raise("ValueError", "C_hot and C_cold must be positive.")
    ELSE Pending

\* The wall and total-resistance failure, if any.
ConductanceFailure ==
    IF self.wall_k # None /\ FLe(self.wall_k, Zero)
    THEN Raise("ValueError", "wall_k must be positive.")
    ELSE IF ~solve_UA(self, TubeThermalOf.v.h, total_inner_area(self.bundle),
                      CoefficientUsed, total_outer_area(self.bundle)).ok
    THEN Raise("ValueError", "Invalid total thermal resistance.")
    ELSE Pending

\* The failure of the first violated precondition of the call, in the order:
\* tube-side mass flow, tube-side thermal inputs, tube-side pressure-drop
\* inputs, outside-flow inputs when both are given, h_o, missing shell side,
\* wall conductivity, total resistance, capacity rates, arrangement name.
\* Pending when none is violated.
FirstViolated ==
    IF FLe(args.m_dot_tube_side, Zero)
    THEN Raise("ValueError", "m_dot_tube_side must be positive.")
    ELSE IF ~TubeThermalOf.ok THEN TubeThermalOf
    ELSE IF ~TubeHydraulicOf.ok THEN TubeHydraulicOf
    ELSE IF ~OutsideMissing /\ ~OutsideOf.ok THEN OutsideOf
    ELSE IF args.h_o # None /\ FLe(args.h_o, Zero)
    THEN Raise("ValueError", "h_o must be positive when provided.")
    ELSE IF args.h_o = None /\ OutsideMissing
    THEN Raise("ValueError", "Outside side not specified.")
    ELSE IF ConductanceFailure # Pending THEN ConductanceFailure
    ELSE IF RatesFailure # Pending THEN RatesFailure
    ELSE IF Lower(NameUsed) \notin Arrangements
    THEN Raise("ValueError", "Unsupported flow_arrangement")
    ELSE Pending

\* C25: a solve of which some precondition is violated fails with the error
\* of the first violated one in the order tube-side mass flow, tube-side
\* thermal inputs, tube-side pressure-drop inputs and K coefficients,
\* outside-flow inputs (when m_dot_outside and outside_props are both given),
\* h_o positivity, missing shell-side configuration, wall conductivity, total
\* resistance, capacity rates, arrangement name; a solve of which none is
\* violated does not fail with any of these errors.
C25_PreconditionOrder ==
    SolveDone
        => /\ FirstViolated # Pending => ret = FirstViolated
           /\ (FirstViolated = Pending /\ ~ret.ok)
                  => ret \in {Raise("ValueError", "eps must be between 0 and 1."),
                              Raise("ZeroDivisionError", "float division by zero")}

\* No shell-side configuration and an unrecognized arrangement name: the
\* missing-shell-side error.
C25_Witness ==
    /\ SolveDone
    /\ args.h_o = None
    /\ OutsideMissing
    /\ Lower(NameUsed) \notin Arrangements
    /\ MissingOutside(ret)

\* A valid h_o and invalid outside-flow inputs: the outside-flow error.
C25_WitnessOverride ==
    /\ SolveDone
    /\ args.h_o # None
    /\ Positive(args.h_o)
    /\ ~OutsideMissing
    /\ ~OutsideOf.ok
    /\ TubeThermalOf.ok
    /\ TubeHydraulicOf.ok
    /\ ret = OutsideOf

\* A wall conductivity of 0 and a stream with no capacity rate: the wall error.
C25_WitnessWallBeforeRates ==
    /\ SolveDone
    /\ self.wall_k = Zero
    /\ ~capacity_rate(args.cold_stream).ok
    /\ ret = Raise("ValueError", "wall_k must be positive.")

\* A stream with no capacity rate and an unrecognized arrangement name: the
\* stream's error.
C25_WitnessRatesBeforeName ==
    /\ SolveDone
    /\ Lower(NameUsed) \notin Arrangements
    /\ ~capacity_rate(args.hot_stream).ok
    /\ NotConfigured(ret)

====
